---------------------------- MODULE Spec2Model ----------------------------
(***************************************************************************)
(* A model of Urbanium's autonomous multi-agent subsystem                  *)
(* (src/urbanium/multiagent): the MessageBus, the InteractionManager, the  *)
(* AgentRunner loop and the SimulationCoordinator.                         *)
(*                                                                         *)
(* Scheduling.  Everything runs on one asyncio event loop, so a coroutine  *)
(* runs without interruption from one real suspension point to the next.   *)
(* `await queue.put(x)` on an unbounded queue, `async with lock` on a lock *)
(* that is never held across a suspension, and `await coro()` of a         *)
(* coroutine that does not suspend, do not suspend.  The real suspension   *)
(* points are asyncio.sleep, run_in_executor, gather and awaiting a        *)
(* pending task; one action of the model runs a task from one of them to   *)
(* the next.                                                               *)
(*                                                                         *)
(* Time.  `now` is datetime.now() in seconds.  A sleep is a suspension     *)
(* point; the event loop may resume the sleeper at any later step, so the  *)
(* model keeps every behaviour of the code (it does not bound how soon or  *)
(* how late a timer fires).                                                *)
(*                                                                         *)
(* Randomness (random.random, random.choice, uuid4, random.randint) is a   *)
(* nondeterministic choice; probabilities are in thousandths.              *)
(*                                                                         *)
(* Collaborators.  The AI provider, the citizen's decision model, the      *)
(* actions and the host's callbacks are inputs: each call returns or       *)
(* raises.  What Action.execute does to the citizen, and the counters      *)
(* messages_processed and interactions_initiated, are not followed.        *)
(***************************************************************************)
EXTENDS Integers, Sequences, FiniteSets, TLC

\* ------------------------------------------------------------------ bounds

\* Message ids handed out (uuid4 is modelled as a fresh counter value).
MaxMsgs == 2
SysMaxMsgs == 3
\* The host's own messages are the first MaxInjects of them.
MaxInjects == 1
\* Clock horizon of the bus, manager and system specifications.
BusMaxTime == 1
MgrMaxTime == 1
SysMaxTime == 1
\* Coordinator ticks and actions per runner the system specification follows.
MaxTicks == 1
MaxActions == 1
\* SimulationConfig.max_duration and .metrics_interval, scaled down.
MaxDuration == 1
MetricsInterval == 0
\* SpecMgr starts fewer interactions than the manager's history retains, so
\* that under SpecMgr the history is the full record of completions.
MgrMaxStarts == 2
\* Message ids handed out under SpecTopic.
TopicMaxMsgs == 1
\* Message ids handed out under SpecBusHist, more than the bus's history
\* retains.
HistMaxMsgs == 4
\* Callbacks a host registers with one coordinator, over all event kinds.
MaxCallbacks == 2
\* run() calls on one coordinator, and the ticks of each that SpecRerun
\* follows.
MaxRuns == 2
RerunMaxTicks == 2
\* Clock horizon and counted actions per runner of SpecPaced, and the
\* action intervals it is configured with.
PacedMaxTime == 2
PacedMaxActions == 2

\* ------------------------------------------------------- program constants

\* Message.expires_at = None and Interaction.end_time = None.
NoExpiry == -1
NoTime == -1
\* MessageBus._max_history and InteractionManager._max_history, scaled down.
BusMaxHistory == 2
MgrMaxHistory == 7
\* can_interact's default cooldown_seconds.
DefaultCooldown == 5
\* AgentContext.think_interval.
ThinkInterval == 1
\* SimulationConfig.agent_action_interval (0.5 s: between times in whole
\* seconds a gap is at least 0.5 s exactly when it is at least 1 s).
ActionInterval == 1


\* Agent ids known to the bus and the manager.
Agents == {"a1", "a2", "a3"}

NoReceiver == "none"

MessageType ==
    {"GREET", "CHAT", "INVITE", "ACCEPT", "DECLINE", "TRADE_OFFER",
     "TRADE_ACCEPT", "TRADE_REJECT", "HIRE_OFFER", "SERVICE_REQUEST",
     "SHARE_INFO", "ASK_INFO", "GOSSIP", "MEET_REQUEST", "LOCATION_UPDATE",
     "BROADCAST", "DIRECT", "ACK"}

InteractionType == {"CONVERSATION", "TRADE"}

SuccessOutcomes == {"success", "positive", "completed"}

\* The ids random.randint(100000, 999999) may draw for an Interaction: two, so
\* that two draws can differ and can collide.
InteractionIds == {"int_1", "int_2"}

NoInteraction == "None"

\* The citizens the coordinator runs; every citizen id is an agent id.
Citizens == {"a1", "a2"}

AgentState ==
    {"IDLE", "THINKING", "ACTING", "INTERACTING", "WAITING", "RESTING", "BUSY"}

\* The state changes the assignments of the runner's code make in the order
\* the code runs them: _think_and_act sets THINKING when the loop found the
\* state IDLE, _execute_action sets ACTING inside it, the finally clauses of
\* both set IDLE; _start_conversation sets INTERACTING when _maybe_interact
\* found the state IDLE, and its finally clause sets IDLE.
Transitions ==
    {<<"IDLE", "THINKING">>, <<"THINKING", "ACTING">>, <<"THINKING", "IDLE">>,
     <<"ACTING", "IDLE">>, <<"IDLE", "INTERACTING">>, <<"INTERACTING", "IDLE">>}

\* Where a runner's loop task stands: not created, suspended at one of its
\* awaits (the 0.1 s poll sleep, the 1.0 s back-off sleep, the 0.5 s settle
\* sleep of a conversation begun by _maybe_interact or by _respond_to_chat,
\* the executor future of the AI call), or finished.
TaskPc ==
    {"none", "poll", "backoff", "settle", "settle_chat", "ai_wait", "done"}

Suspended == {"poll", "backoff", "settle", "settle_chat", "ai_wait"}

\* The values random.random() is drawn from, in thousandths.
Rolls == {0, 500, 999}

\* The two coordinator.stop() calls followed: the host's, and the one in the
\* finally clause of run().
StopCalls == {"ext", "fin"}

VARIABLES
    now,                 \* datetime.now(), in seconds
    \* MessageBus
    inboxes,             \* _inboxes: registered id -> queue of messages
    agents,              \* _agents
    subscriptions,       \* _subscriptions: topic -> set of ids
    lock,                \* _lock is held
    unguarded,           \* _inboxes, _agents or _subscriptions was written
                         \* while _lock was not held
    busHistory,          \* _history
    messagesSent,        \* messages_sent
    messagesDelivered,   \* messages_delivered
    nextMsgId,           \* the next fresh Message.id
    sendLog,             \* a caller's record of the messages it passed to
                         \* send(), each with the time of the call
    \* InteractionManager
    active,              \* _active_interactions: id -> Interaction
    mgrHistory,          \* _history
    cooldowns,           \* _cooldowns: agent -> (type -> time)
    totalInteractions,   \* total_interactions
    successfulInteractions, \* successful_interactions
    \* per citizen
    runner,              \* AgentRunner: _running, _task, actions_taken, and
                         \* the loop task a later start() displaced
    ctx,                 \* AgentContext: state, current_interaction,
                         \* last_decision_time, last_action_time
    citizen,             \* Citizen: needs.social and traits, in thousandths
    \* SimulationCoordinator
    coord,               \* _running, _start_time, _tick, _metrics_history,
                         \* runners
    ctl,                 \* where run(), its start tasks and the stop() calls
                         \* stand; run()'s local metrics_last
    callbacks,           \* _on_tick, _on_action, _on_interaction
    invoked,             \* per event kind: how many events were dispatched,
                         \* and the callbacks called for the latest, in order
    cfg                  \* the run's configuration and collaborators

vars ==
    <<now, inboxes, agents, subscriptions, lock, unguarded, busHistory,
      messagesSent,
      messagesDelivered,
      nextMsgId, sendLog, active, mgrHistory, cooldowns,
      totalInteractions, successfulInteractions,
      runner, ctx, citizen, coord, ctl, callbacks, invoked, cfg>>

\* The program state as one record, so that a handler's statements compose.
W ==
    [now |-> now, inboxes |-> inboxes, agents |-> agents,
     subscriptions |-> subscriptions, lock |-> lock, unguarded |-> unguarded,
     busHistory |-> busHistory, messagesSent |-> messagesSent,
     messagesDelivered |-> messagesDelivered, nextMsgId |-> nextMsgId,
     sendLog |-> sendLog,
     active |-> active, mgrHistory |-> mgrHistory, cooldowns |-> cooldowns,
     totalInteractions |-> totalInteractions,
     successfulInteractions |-> successfulInteractions,
     runner |-> runner, ctx |-> ctx, citizen |-> citizen, coord |-> coord,
     ctl |-> ctl, callbacks |-> callbacks, invoked |-> invoked, cfg |-> cfg]

Commit(w) ==
    /\ now' = w.now
    /\ inboxes' = w.inboxes
    /\ agents' = w.agents
    /\ subscriptions' = w.subscriptions
    /\ lock' = w.lock
    /\ unguarded' = w.unguarded
    /\ busHistory' = w.busHistory
    /\ messagesSent' = w.messagesSent
    /\ messagesDelivered' = w.messagesDelivered
    /\ nextMsgId' = w.nextMsgId
    /\ sendLog' = w.sendLog
    /\ active' = w.active
    /\ mgrHistory' = w.mgrHistory
    /\ cooldowns' = w.cooldowns
    /\ totalInteractions' = w.totalInteractions
    /\ successfulInteractions' = w.successfulInteractions
    /\ runner' = w.runner
    /\ ctx' = w.ctx
    /\ citizen' = w.citizen
    /\ coord' = w.coord
    /\ ctl' = w.ctl
    /\ callbacks' = w.callbacks
    /\ invoked' = w.invoked
    /\ cfg' = w.cfg

\* ------------------------------------------------------------- helpers

\* lst[-n:] of a Python list.
LastN(s, n) == IF Len(s) > n THEN SubSeq(s, Len(s) - n + 1, Len(s)) ELSE s

Range(s) == {s[i] : i \in 1..Len(s)}

\* A dict with key k set to v (added when absent).
Put(f, k, v) == [x \in DOMAIN f \cup {k} |-> IF x = k THEN v ELSE f[x]]

\* dict.pop(k, None): the dict without key k.
Drop(f, k) == [x \in DOMAIN f \ {k} |-> f[x]]

EmptyDict == [x \in {} |-> 0]

\* ------------------------------------------------------------ MessageBus

\* Message.content: the two entries _respond_to_trade reads, absent ones 0.
NoContent == [value |-> 0, cost |-> 0]
\* The content of the GREET _respond_to_greeting sends: {"response": "hello"}.
GreetResponse == [value |-> 0, cost |-> 0, response |-> "hello"]

Message(id, sender, receiver, kind, expires, content) ==
    [id |-> id, sender |-> sender, receiver |-> receiver, kind |-> kind,
     expires |-> expires, content |-> content]

IsExpired(m, t) == m.expires # NoExpiry /\ t > m.expires

IsBroadcast(m) == m.receiver = NoReceiver

\* A register_agent that would always make a new queue.
RegisterAgentNewQueue(w, a) ==
    [w EXCEPT !.inboxes = Put(@, a, <<>>), !.agents = @ \cup {a}]

\* `async with self._lock`: entering and leaving.  The lock is never held
\* across a suspension, so entering never waits.
Acquire(w) == [w EXCEPT !.lock = TRUE]

Release(w) == [w EXCEPT !.lock = FALSE]

\* A statement has just written _inboxes, _agents or _subscriptions.
Written(w) == [w EXCEPT !.unguarded = @ \/ ~w.lock]

RegisterAgent(w, a) ==
    LET w1 == Acquire(w)
    IN Release(IF a \notin DOMAIN w1.inboxes
               THEN Written([w1 EXCEPT !.inboxes = Put(@, a, <<>>),
                                       !.agents = @ \cup {a}])
               ELSE w1)

\* An unregister_agent that would leave the topic subscriptions alone.
UnregisterAgentKeepsTopics(w, a) ==
    [w EXCEPT !.inboxes = Drop(@, a), !.agents = @ \ {a}]

UnregisterAgent(w, a) ==
    LET w1 == Acquire(w)
    IN Release(Written([w1 EXCEPT
                           !.inboxes = Drop(@, a), !.agents = @ \ {a},
                           !.subscriptions = [t \in DOMAIN @ |-> @[t] \ {a}]]))

\* self._subscriptions[topic] of the defaultdict, which adds a missing topic.
Subscribers(w, t) ==
    IF t \in DOMAIN w.subscriptions THEN w.subscriptions[t] ELSE {}

Subscribe(w, a, t) ==
    Written([w EXCEPT !.subscriptions = Put(@, t, Subscribers(w, t) \cup {a})])

Unsubscribe(w, a, t) ==
    Written([w EXCEPT !.subscriptions = Put(@, t, Subscribers(w, t) \ {a})])

\* A faulty _direct_send, putting the message at the head of the mailbox; the
\* ordering property is checked to tell it from DirectSend.
DirectSendPrepends(w, m) ==
    IF m.receiver \notin DOMAIN w.inboxes
    THEN [w |-> w, ret |-> FALSE]
    ELSE [w |-> [w EXCEPT !.inboxes[m.receiver] = <<m>> \o @,
                          !.messagesDelivered = @ + 1],
          ret |-> TRUE]

\* A _direct_send over a mailbox map that would create the missing mailbox
\* (a defaultdict).
DirectSendCreatesMailbox(w, m) ==
    [w |-> [w EXCEPT !.inboxes =
                         Put(@, m.receiver,
                             Append(IF m.receiver \in DOMAIN @
                                    THEN @[m.receiver] ELSE <<>>, m)),
                     !.messagesDelivered = @ + 1],
     ret |-> TRUE]

\* Returns the world and the boolean returned.
DirectSend(w, m) ==
    IF m.receiver \notin DOMAIN w.inboxes
    THEN [w |-> w, ret |-> FALSE]
    ELSE [w |-> [w EXCEPT !.inboxes[m.receiver] = Append(@, m),
                          !.messagesDelivered = @ + 1],
          ret |-> TRUE]

\* A faulty _broadcast that does not skip the sender.
BroadcastToAll(w, m) ==
    LET n == Cardinality(DOMAIN w.inboxes)
    IN [w |-> [w EXCEPT !.inboxes = [b \in DOMAIN @ |-> Append(@[b], m)],
                        !.messagesDelivered = @ + n],
        ret |-> n > 0]

Broadcast(w, m) ==
    LET to == {b \in DOMAIN w.inboxes : b # m.sender}
        delivered == Cardinality(to)
    IN [w |-> [w EXCEPT !.inboxes =
                            [b \in DOMAIN @ |->
                                IF b \in to THEN Append(@[b], m) ELSE @[b]],
                        !.messagesDelivered = @ + delivered],
        ret |-> delivered > 0]

\* A send() that would record the message before it tests its expiry.
SendRecordsExpired(w, m) ==
    LET w1 == [w EXCEPT !.busHistory = LastN(Append(@, m), BusMaxHistory)]
    IN IF IsExpired(m, w.now)
       THEN [w |-> w1, ret |-> FALSE]
       ELSE LET w2 == [w1 EXCEPT !.messagesSent = @ + 1]
            IN IF IsBroadcast(m) THEN Broadcast(w2, m) ELSE DirectSend(w2, m)

Send(w, m) ==
    IF IsExpired(m, w.now)
    THEN [w |-> w, ret |-> FALSE]
    ELSE LET w1 == [w EXCEPT !.messagesSent = @ + 1,
                             !.busHistory = LastN(Append(@, m), BusMaxHistory)]
         IN IF IsBroadcast(m) THEN Broadcast(w1, m) ELSE DirectSend(w1, m)

\* Returns the world and the number of subscribers reached.
Publish(w, t, m) ==
    LET to == {b \in Subscribers(w, t) :
                   b \in DOMAIN w.inboxes /\ b # m.sender}
        delivered == Cardinality(to)
    IN [w |-> [w EXCEPT !.inboxes =
                            [b \in DOMAIN @ |->
                                IF b \in to THEN Append(@[b], m) ELSE @[b]],
                        !.messagesDelivered = @ + delivered],
        ret |-> delivered]

\* A send_to_nearby that would reach every agent at the location, with or
\* without a mailbox.
SendToNearbyUnregistered(w, m, location, locs) ==
    LET to == {b \in DOMAIN locs : b # m.sender /\ locs[b] = location}
        delivered == Cardinality(to)
    IN [w |-> [w EXCEPT !.inboxes =
                            [b \in DOMAIN @ \cup to |->
                                Append(IF b \in DOMAIN @ THEN @[b] ELSE <<>>,
                                       m)],
                        !.messagesDelivered = @ + delivered],
        ret |-> delivered]

\* send_to_nearby: locs is the caller's map from agent id to location.
\* Returns the world and the number of agents reached.
SendToNearby(w, m, location, locs) ==
    LET to == {b \in DOMAIN locs :
                   /\ b # m.sender
                   /\ locs[b] = location
                   /\ b \in DOMAIN w.inboxes}
        delivered == Cardinality(to)
    IN [w |-> [w EXCEPT !.inboxes =
                            [b \in DOMAIN @ |->
                                IF b \in to THEN Append(@[b], m) ELSE @[b]],
                        !.messagesDelivered = @ + delivered],
        ret |-> delivered]

GetOnlineAgents(w) == w.agents

\* --------------------------------------------------- InteractionManager

Interaction(id, type, initiator, participants) ==
    [id |-> id, type |-> type, initiator |-> initiator,
     participants |-> participants, end |-> NoTime, outcome |-> "pending"]

Participates(a, i) == a \in Range(i.participants)

\* A can_interact that would also read other's cooldown.
CanInteractAlsoChecksOther(w, agent, other, type, cooldown) ==
    /\ \A id \in DOMAIN w.active :
          /\ ~Participates(agent, w.active[id])
          /\ ~Participates(other, w.active[id])
    /\ \A x \in {agent, other} :
          ~ /\ x \in DOMAIN w.cooldowns
            /\ type \in DOMAIN w.cooldowns[x]
            /\ w.now - w.cooldowns[x][type] < cooldown

\* A can_interact without its cooldown test.
CanInteractIgnoresCooldown(w, agent, other, type, cooldown) ==
    \A id \in DOMAIN w.active :
        /\ ~Participates(agent, w.active[id])
        /\ ~Participates(other, w.active[id])

CanInteract(w, agent, other, type, cooldown) ==
    /\ \A id \in DOMAIN w.active :
          /\ ~Participates(agent, w.active[id])
          /\ ~Participates(other, w.active[id])
    /\ ~ /\ agent \in DOMAIN w.cooldowns
         /\ type \in DOMAIN w.cooldowns[agent]
         /\ w.now - w.cooldowns[agent][type] < cooldown

\* The new interaction's id is the caller's random draw.
StartInteraction(w, id, type, initiator, participants) ==
    [w EXCEPT !.active =
                  Put(@, id, Interaction(id, type, initiator, participants)),
              !.totalInteractions = @ + 1]

StampCooldowns(cd, parts, type, t) ==
    [a \in DOMAIN cd \cup Range(parts) |->
        IF a \in Range(parts)
        THEN Put(IF a \in DOMAIN cd THEN cd[a] ELSE EmptyDict, type, t)
        ELSE cd[a]]

\* A complete_interaction that would count the outcome before looking the id
\* up.
CompleteInteractionCountsFirst(w, id, outcome) ==
    LET w0 == [w EXCEPT !.successfulInteractions =
                            IF outcome \in SuccessOutcomes THEN @ + 1 ELSE @]
    IN IF id \notin DOMAIN w.active
       THEN [w |-> w0, ret |-> NoInteraction]
       ELSE LET i == [w.active[id] EXCEPT !.end = w.now, !.outcome = outcome]
            IN [w |-> [w0 EXCEPT
                         !.active = Drop(@, id),
                         !.cooldowns = StampCooldowns(@, i.participants,
                                                      i.type, w.now),
                         !.mgrHistory = LastN(Append(@, i), MgrMaxHistory)],
                ret |-> id]

\* lst[:n] of a Python list.
FirstN(s, n) == IF Len(s) > n THEN SubSeq(s, 1, n) ELSE s

\* A complete_interaction that would trim the history with [:max_history].
CompleteInteractionKeepsOldest(w, id, outcome) ==
    IF id \notin DOMAIN w.active
    THEN [w |-> w, ret |-> NoInteraction]
    ELSE LET i == [w.active[id] EXCEPT !.end = w.now, !.outcome = outcome]
         IN [w |-> [w EXCEPT
                      !.active = Drop(@, id),
                      !.cooldowns = StampCooldowns(@, i.participants, i.type,
                                                   w.now),
                      !.mgrHistory = FirstN(Append(@, i), MgrMaxHistory),
                      !.successfulInteractions =
                          IF outcome \in SuccessOutcomes THEN @ + 1 ELSE @],
             ret |-> id]

\* Returns the world and the completed interaction's id, or None.
CompleteInteraction(w, id, outcome) ==
    IF id \notin DOMAIN w.active
    THEN [w |-> w, ret |-> NoInteraction]
    ELSE LET i == [w.active[id] EXCEPT !.end = w.now, !.outcome = outcome]
         IN [w |-> [w EXCEPT
                      !.active = Drop(@, id),
                      !.cooldowns = StampCooldowns(@, i.participants, i.type,
                                                   w.now),
                      !.mgrHistory = LastN(Append(@, i), MgrMaxHistory),
                      !.successfulInteractions =
                          IF outcome \in SuccessOutcomes THEN @ + 1 ELSE @],
             ret |-> id]

\* Thousandths: +0.1 per successful and -0.15 per failed shared interaction.
RECURSIVE ScoreOf(_, _, _)
ScoreOf(h, a, b) ==
    IF h = <<>> THEN 0
    ELSE LET i == Head(h)
             d == IF ~(Participates(a, i) /\ Participates(b, i)) THEN 0
                  ELSE IF i.outcome \in SuccessOutcomes THEN 100
                  ELSE IF i.outcome \in {"failure", "negative", "conflict"}
                       THEN -150
                  ELSE 0
         IN d + ScoreOf(Tail(h), a, b)

Min(x, y) == IF x < y THEN x ELSE y

Max(x, y) == IF x > y THEN x ELSE y

\* A get_relationship_score that would return the sum as it is.
GetRelationshipScoreUnclamped(w, a, b) == ScoreOf(w.mgrHistory, a, b)

GetRelationshipScore(w, a, b) ==
    Max(-1000, Min(1000, ScoreOf(w.mgrHistory, a, b)))

\* -------------------------------------------- the coordinator's callbacks

\* The kinds of event the coordinator has a callback list for.
Events == {"tick", "action", "interaction"}

\* The callables a host registers.
CallbackIds == {"cb1", "cb2"}

NoCallbacks == [e \in Events |-> <<>>]

NoneInvoked == [e \in Events |-> [n |-> 0, calls |-> <<>>]]

\* on_tick, on_action, on_interaction
Register(w, e, cb) == [w EXCEPT !.callbacks[e] = Append(@, cb)]

\* A callback loop without try/except: the first callback that raises ends
\* it.
RECURSIVE RunCallbacksUnguarded(_, _, _)
RunCallbacksUnguarded(w, e, cbs) ==
    IF cbs = <<>> THEN {w}
    ELSE LET w1 == [w EXCEPT !.invoked[e].calls = Append(@, Head(cbs))]
         IN RunCallbacksUnguarded(w1, e, Tail(cbs)) \cup {w1}

\* `for callback in cbs: try: callback(...) except Exception: log`.  Each
\* callback is called, and returns or raises an Exception, which is logged;
\* either way the loop goes on to the next one.
RECURSIVE RunCallbacks(_, _, _)
RunCallbacks(w, e, cbs) ==
    IF cbs = <<>> THEN {w}
    ELSE LET w1 == [w EXCEPT !.invoked[e].calls = Append(@, Head(cbs))]
         IN RunCallbacks(w1, e, Tail(cbs)) \cup RunCallbacks(w1, e, Tail(cbs))

\* One event of kind e is dispatched to the callbacks registered for it: the
\* loop of _handle_action and _handle_interaction, and the tick loop of
\* run().
Dispatch(w, e) ==
    RunCallbacks([w EXCEPT !.invoked[e] = [n |-> @.n + 1, calls |-> <<>>]],
                 e, w.callbacks[e])

\* ------------------------------------------------------------ AgentRunner

\* A coroutine's run up to its next suspension point: the world it leaves and
\* where it stands.
Outcome(w, pc) == [w |-> w, pc |-> pc]

\* `self.context.state = s`.  The context also keeps, for the properties
\* below, whether some assignment of the runner has changed its state by a
\* pair outside Transitions.
SetState(w, c, s) ==
    [w EXCEPT !.ctx[c].state = s,
              !.ctx[c].strayed =
                  @ \/ (w.ctx[c].state # s
                           /\ <<w.ctx[c].state, s>> \notin Transitions)]

\* The steps of one iteration of _run_loop, in the order of its statements:
\* _process_messages, _think_and_act (when a decision cycle starts),
\* _maybe_interact.
LoopOrder == <<"drain", "think", "roll">>

\* s is t with some of its elements left out.
RECURSIVE IsSubSeq(_, _)
IsSubSeq(s, t) ==
    IF s = <<>> THEN TRUE
    ELSE IF t = <<>> THEN FALSE
    ELSE IF Head(s) = Head(t) THEN IsSubSeq(Tail(s), Tail(t))
    ELSE IsSubSeq(s, Tail(t))

\* The loop task of c goes through step p of its iteration.
Phase(w, c, p) == [w EXCEPT !.runner[c].phases = Append(@, p)]

\* message_bus.send of a message built on the spot; no outcome once the
\* message ids followed are used up.
SendNewWith(w, sender, receiver, kind, content) ==
    IF w.nextMsgId > SysMaxMsgs THEN {}
    ELSE {Send([w EXCEPT !.nextMsgId = @ + 1],
               Message(w.nextMsgId, sender, receiver, kind, NoExpiry,
                       content)).w}

SendNew(w, sender, receiver, kind) ==
    SendNewWith(w, sender, receiver, kind, NoContent)

\* _start_conversation up to its settle sleep.
StartConversation(w, c, other) ==
    UNION {LET w1 == SetState(w, c, "INTERACTING")
               w2 == StartInteraction(w1, id, "CONVERSATION", c, <<c, other>>)
               w3 == [w2 EXCEPT !.ctx[c].curInter = id]
           IN UNION {Dispatch(x, "interaction") :
                         x \in SendNew(w3, c, other, "GREET")}
           : id \in InteractionIds}

\* A _start_conversation that would apply the social benefit to every
\* participant.
FinishConversationBoostsAll(w, c) ==
    LET id == w.ctx[c].curInter
        parts == IF id \in DOMAIN w.active
                 THEN Range(w.active[id].participants) \cap Citizens ELSE {c}
        w1 == CompleteInteraction(w, id, "completed").w
        w2 == [w1 EXCEPT !.citizen =
                             [d \in Citizens |->
                                 IF d \in parts
                                 THEN [@[d] EXCEPT !.social = Min(1000, @ + 50)]
                                 ELSE @[d]]]
    IN [SetState(w2, c, "IDLE") EXCEPT !.ctx[c].curInter = NoInteraction]

\* A _start_conversation whose end would not set the state back to IDLE.
FinishConversationKeepsState(w, c) ==
    LET w1 == CompleteInteraction(w, w.ctx[c].curInter, "completed").w
        w2 == [w1 EXCEPT !.citizen[c].social = Min(1000, @ + 50)]
    IN [w2 EXCEPT !.ctx[c].curInter = NoInteraction]

\* _start_conversation from its settle sleep to its end.
FinishConversation(w, c) ==
    LET w1 == CompleteInteraction(w, w.ctx[c].curInter, "completed").w
        w2 == [w1 EXCEPT !.citizen[c].social = Min(1000, @ + 50)]
    IN [SetState(w2, c, "IDLE") EXCEPT !.ctx[c].curInter = NoInteraction]

\* random.random() < extraversion * 0.5 + 0.5
RespondToGreeting(w, c, m) ==
    UNION {IF 2 * r < w.citizen[c].extraversion + 1000
           THEN SendNewWith(w, c, m.sender, "GREET", GreetResponse)
           ELSE {w} : r \in Rolls}

\* random.random() < social * 0.5 + agreeableness * 0.3
RespondToChat(w, c, m) ==
    UNION {IF 10 * r < 5 * w.citizen[c].social
                          + 3 * w.citizen[c].agreeableness
           THEN {Outcome(x, "settle_chat") :
                     x \in StartConversation(w, c, m.sender)}
           ELSE {Outcome(w, "handled")} : r \in Rolls}

\* random.random() < social * 0.4 + openness * 0.3 + 0.2
RespondToInvite(w, c, m) ==
    UNION {SendNew(w, c, m.sender,
                   IF 10 * r < 4 * w.citizen[c].social
                                 + 3 * w.citizen[c].openness + 2000
                   THEN "ACCEPT" ELSE "DECLINE") : r \in Rolls}

\* A _respond_to_trade that would accept whenever the offer costs nothing
\* more than it brings.
RespondToTradeAcceptsTies(w, c, m) ==
    LET benefit == m.content.value - m.content.cost
    IN SendNew(w, c, m.sender,
               IF benefit >= 0 THEN "TRADE_ACCEPT" ELSE "TRADE_REJECT")

\* benefit > 0 or (benefit >= 0 and random.random() < 0.5)
RespondToTrade(w, c, m) ==
    LET benefit == m.content.value - m.content.cost
    IN UNION {SendNew(w, c, m.sender,
                      IF benefit > 0 \/ (benefit >= 0 /\ r < 500)
                      THEN "TRADE_ACCEPT" ELSE "TRADE_REJECT") : r \in Rolls}

\* random.random() < 0.3 + relationship * 0.4 + social * 0.3
RespondToMeetRequest(w, c, m) ==
    UNION {SendNew(w, c, m.sender,
                   IF w.ctx[c].state # "IDLE" THEN "DECLINE"
                   ELSE IF 10 * r < 3000
                                + 4 * GetRelationshipScore(w, c, m.sender)
                                + 3 * w.citizen[c].social
                        THEN "ACCEPT" ELSE "DECLINE") : r \in Rolls}

HandleMessage(w, c, m) ==
    IF IsExpired(m, w.now) THEN {Outcome(w, "handled")}
    ELSE CASE m.kind = "GREET" ->
                  {Outcome(x, "handled") : x \in RespondToGreeting(w, c, m)}
           [] m.kind = "CHAT" -> RespondToChat(w, c, m)
           [] m.kind = "INVITE" ->
                  {Outcome(x, "handled") : x \in RespondToInvite(w, c, m)}
           [] m.kind = "TRADE_OFFER" ->
                  {Outcome(x, "handled") : x \in RespondToTrade(w, c, m)}
           [] m.kind = "MEET_REQUEST" ->
                  {Outcome(x, "handled") :
                       x \in RespondToMeetRequest(w, c, m)}
           [] OTHER -> {Outcome(w, "handled")}

\* The drain loop of _process_messages, from its emptiness test on: it ends
\* drained, or suspended in the conversation a CHAT made the runner begin.
RECURSIVE ProcessMessages(_, _)
ProcessMessages(w, c) ==
    IF c \notin DOMAIN w.inboxes \/ w.inboxes[c] = <<>>
    THEN {Outcome(w, "drained")}
    ELSE LET m == Head(w.inboxes[c])
             w1 == [w EXCEPT !.inboxes[c] = Tail(@)]
         IN UNION {IF h.pc = "handled" THEN ProcessMessages(h.w, c) ELSE {h} :
                       h \in HandleMessage(w1, c, m)}

\* An _execute_action that would count the action before executing it.
ExecuteRaisesCounted(w, c) ==
    SetState([SetState(w, c, "ACTING") EXCEPT !.runner[c].actionsTaken = @ + 1,
                                              !.ctx[c].lastAction = w.now],
             c, "IDLE")

\* _execute_action when action.execute raises: the exception is logged and
\* the finally clause sets IDLE.
ExecuteRaises(w, c) == SetState(SetState(w, c, "ACTING"), c, "IDLE")

\* _execute_action when action.execute returns: the action is counted and
\* timed, on_action is called, and the finally clause sets IDLE.
ExecuteReturns(w, c) ==
    {SetState(x, c, "IDLE") :
        x \in Dispatch([SetState(w, c, "ACTING") EXCEPT
                            !.runner[c].actionsTaken = @ + 1,
                            !.ctx[c].lastAction = w.now],
                       "action")}

\* _execute_action; a runner is followed up to cfg.acts counted actions.
ExecuteAction(w, c) ==
    {ExecuteRaises(w, c)}
    \cup (IF w.runner[c].actionsTaken >= w.cfg.acts THEN {}
          ELSE ExecuteReturns(w, c))

\* A fallback whose select_action never raises, whatever the configuration.
FallbackNeverRaises(w, c) ==
    {Outcome(x, "cont") : x \in ExecuteAction(w, c) \cup {SetState(w, c, "IDLE")}}

\* _decide_action from the fallback on, and the rest of _think_and_act:
\* citizen.decision_model.select_action raises (the finally clause of
\* _think_and_act sets IDLE and the exception goes on), or returns an action,
\* which is executed, or None.
FallbackDecide(w, c) ==
    {Outcome(SetState(w, c, "IDLE"), "raise")}
    \cup (IF w.cfg.fb = "raises" THEN {}
          ELSE {Outcome(x, "cont") :
                    x \in ExecuteAction(w, c) \cup {SetState(w, c, "IDLE")}})

\* A _think_and_act without the test of the think interval.
ThinkAndActUngated(w, c) ==
    LET w1 == [Phase(SetState(w, c, "THINKING"), c, "think") EXCEPT
                   !.ctx[c].lastDecision = w.now,
                   !.ctx[c].prevDecision = w.ctx[c].lastDecision,
                   !.ctx[c].decidedIn = w.ctx[c].state]
    IN {Outcome(SetState(w1, c, "IDLE"), "cont")}
       \cup (IF w.cfg.ai # "absent"
             THEN {Outcome(w1, "ai_wait")}
             ELSE FallbackDecide(w1, c))

\* _think_and_act up to the executor call of _decide_action, or to its end.
\* A decision cycle that starts leaves, for the properties below, the time
\* of the cycle before it and the state it started in.
ThinkAndAct(w, c) ==
    IF w.now - w.ctx[c].lastDecision < ThinkInterval
    THEN {Outcome(w, "cont")}
    ELSE LET w1 == [Phase(SetState(w, c, "THINKING"), c, "think") EXCEPT
                        !.ctx[c].lastDecision = w.now,
                        !.ctx[c].prevDecision = w.ctx[c].lastDecision,
                        !.ctx[c].decidedIn = w.ctx[c].state]
         IN {Outcome(SetState(w1, c, "IDLE"), "cont")}
            \cup (IF w.cfg.ai # "absent"
                  THEN {Outcome(w1, "ai_wait")}
                  ELSE FallbackDecide(w1, c))

\* _decide_action from the executor call's result on, and the rest of
\* _think_and_act.
AiResult(w, c) ==
    FallbackDecide(w, c)
    \cup (IF w.cfg.ai = "raises" THEN {}
          ELSE {Outcome(x, "cont") :
                    x \in ExecuteAction(w, c) \cup {SetState(w, c, "IDLE")}})

\* 2 * random.random() > social_probability * (1 - social) + extraversion * 0.6
MaybeInteract(w0, c) ==
    LET w == Phase(w0, c, "roll")
    IN UNION {IF 2 * r * 1000 > w.cfg.p * (1000 - w.citizen[c].social)
                                    + 600 * w.citizen[c].extraversion
              THEN {Outcome(w, "poll")}
              ELSE LET nearby == GetOnlineAgents(w) \ {c}
                   IN IF nearby = {} THEN {Outcome(w, "poll")}
                      ELSE UNION {IF ~CanInteract(w, c, target, "CONVERSATION",
                                                  DefaultCooldown)
                                  THEN {Outcome(w, "poll")}
                                  ELSE {Outcome(x, "settle") :
                                            x \in StartConversation(w, c,
                                                                    target)}
                                  : target \in nearby}
              : r \in Rolls}

\* A _run_loop without its `except Exception` clause: the exception ends the
\* task.
LoopExceptMissing(w, c) == Outcome(w, "done")

\* The `except Exception` clause of _run_loop: log, then sleep 1.0 s.
LoopExcept(w, c) == Outcome(w, "backoff")

\* _run_loop after a decision cycle.
AfterThink(o, c) ==
    CASE o.pc = "raise" -> {LoopExcept(o.w, c)}
      [] o.pc = "ai_wait" -> {o}
      [] OTHER -> IF o.w.ctx[c].state = "IDLE"
                  THEN MaybeInteract(o.w, c)
                  ELSE {Outcome(o.w, "poll")}

\* _run_loop after _process_messages.
AfterDrain(o, c) ==
    IF o.pc = "settle_chat" THEN {o}
    ELSE IF o.w.ctx[c].state \in {"IDLE", "WAITING"}
         THEN UNION {AfterThink(t, c) : t \in ThinkAndAct(o.w, c)}
         ELSE AfterThink(Outcome(o.w, "cont"), c)

\* One pass of _run_loop from its `while self._running` test.
LoopIteration(w, c) ==
    IF ~w.runner[c].running THEN {Outcome(w, "done")}
    ELSE UNION {AfterDrain(d, c) :
                    d \in ProcessMessages(Phase(w, c, "drain"), c)}

\* The loop task of c suspends at o.pc, or is over.  At a sleep of the loop
\* (or at the loop's end) the iteration is over: whether its steps ran out
\* of the order of LoopOrder is kept, and the record of its steps is
\* cleared.
Suspend(o, c) ==
    LET w1 == [o.w EXCEPT !.runner[c].task = o.pc]
    IN IF o.pc \in {"poll", "backoff", "done"}
       THEN [w1 EXCEPT !.runner[c].misordered =
                           @ \/ ~IsSubSeq(w1.runner[c].phases, LoopOrder),
                       !.runner[c].phases = <<>>]
       ELSE w1

\* The finally clauses a CancelledError passes on its way out of a task
\* suspended at pc.
Unwind(w, c, pc) ==
    IF pc \in {"settle", "settle_chat"}
    THEN [SetState(w, c, "IDLE") EXCEPT !.ctx[c].curInter = NoInteraction]
    ELSE IF pc = "ai_wait" THEN SetState(w, c, "IDLE") ELSE w

\* CancelledError raised at the await the task is suspended in.
Cancelled(w, c) ==
    [Unwind(w, c, w.runner[c].task) EXCEPT !.runner[c].task = "done",
                                           !.runner[c].cancelled = FALSE,
                                           !.runner[c].phases = <<>>]

\* The same for a cancelled task that a later start() has displaced from
\* self._task.
OldCancelled(w, c) ==
    [Unwind(w, c, w.runner[c].old) EXCEPT !.runner[c].old = "none"]

\* AgentRunner.start.  self._task is overwritten: a loop task still live
\* there (cancelled by a stop() that has not yet seen it end) goes on as the
\* displaced task, and the stop() calls awaiting it keep awaiting it.  A
\* stop() call that had returned is over: it is no longer the runner's
\* latest call.
RunnerStart(w, c) ==
    IF w.runner[c].running THEN w
    ELSE [RegisterAgent(w, c) EXCEPT
             !.runner[c].running = TRUE,
             !.runner[c].task = "poll",
             !.runner[c].phases = <<>>,
             !.runner[c].cancelled = FALSE,
             !.runner[c].old = IF w.runner[c].task \in Suspended
                               THEN w.runner[c].task ELSE @,
             !.ctl.stop = [k \in StopCalls |->
                              [@[k] EXCEPT ![c] =
                                  CASE @ = "await" -> "await_old"
                                    [] @ = "done" -> "none"
                                    [] OTHER -> @]]]

\* A stop() that would not unregister.
RunnerStopKeepsRegistration(w, c) == w

\* AgentRunner.stop from its await of the task on.
RunnerStopEnd(w, c) == UnregisterAgent(w, c)

\* AgentRunner.stop up to its await of the task, or to its end.
RunnerStopBegin(w, c) ==
    LET w1 == [w EXCEPT !.runner[c].running = FALSE]
    IN IF w1.runner[c].task \in Suspended
       THEN Outcome([w1 EXCEPT !.runner[c].cancelled = TRUE], "await")
       ELSE Outcome(RunnerStopEnd(w1, c), "done")

\* ------------------------------------------------- SimulationCoordinator

NewRunner == [running |-> FALSE, task |-> "none", cancelled |-> FALSE,
              actionsTaken |-> 0, old |-> "none", phases |-> <<>>,
              misordered |-> FALSE]

NewContext(t) == [state |-> "IDLE", curInter |-> NoInteraction,
                  lastDecision |-> t, lastAction |-> t, strayed |-> FALSE,
                  prevDecision |-> NoTime, decidedIn |-> "None"]

Setup(w) ==
    [w EXCEPT !.runner = [c \in Citizens |-> NewRunner],
              !.ctx = [c \in Citizens |-> NewContext(w.now)],
              !.coord.runners = Citizens]

CollectMetrics(w) ==
    [w EXCEPT !.coord.metrics =
                  Append(@, [tick |-> w.coord.tick,
                             elapsed |-> w.now - w.coord.startTime])]

\* coordinator.stop() up to its gather: one runner.stop() task per runner.
StopBegin(w, k) ==
    [w EXCEPT !.coord.running = FALSE,
              !.ctl.stop[k] = [c \in Citizens |->
                                  IF c \in w.coord.runners THEN "ready"
                                  ELSE "done"]]

\* A run() whose stop() would follow the loop with no finally clause.
RunFinallySkippedOnError(w, exc) ==
    IF exc = "none"
    THEN [StopBegin(w, "fin") EXCEPT !.ctl.run = "stopping"]
    ELSE [w EXCEPT !.ctl.exc = exc, !.ctl.run = "raised"]

\* run() leaves its try block, with the exception in flight if there is one:
\* the finally clause calls stop().
RunFinally(w, exc) ==
    [StopBegin(w, "fin") EXCEPT !.ctl.exc = exc, !.ctl.run = "stopping"]

\* A loop without the duration test.
CoordLoopNoLimit(w, maxTicks) ==
    IF ~w.coord.running THEN {RunFinally(w, "none")}
    ELSE IF w.coord.tick >= maxTicks THEN {}
    ELSE LET w1 == [w EXCEPT !.coord.tick = @ + 1]
         IN {[(IF x.now - x.ctl.metricsLast >= MetricsInterval
               THEN [CollectMetrics(x) EXCEPT !.ctl.metricsLast = x.now]
               ELSE x) EXCEPT !.ctl.run = "sleep"] : x \in Dispatch(w1, "tick")}
            \cup {RunFinally(w1, "fatal")}

\* One pass of run()'s loop from its `while self._running` test to the tick
\* sleep, or out of the loop: the tick callbacks are called; or an exception
\* that `except Exception` does not catch (a KeyboardInterrupt, say) goes
\* through the loop body.
CoordLoopUpTo(w, maxTicks) ==
    IF ~w.coord.running \/ w.now - w.coord.startTime >= MaxDuration
    THEN {RunFinally(w, "none")}
    ELSE IF w.coord.tick >= maxTicks THEN {}
    ELSE LET w1 == [w EXCEPT !.coord.tick = @ + 1]
         IN {[(IF x.now - x.ctl.metricsLast >= MetricsInterval
               THEN [CollectMetrics(x) EXCEPT !.ctl.metricsLast = x.now]
               ELSE x) EXCEPT !.ctl.run = "sleep"] : x \in Dispatch(w1, "tick")}
            \cup {RunFinally(w1, "fatal")}

CoordLoop(w) == CoordLoopUpTo(w, MaxTicks)

\* --------------------------------------------------------------- actions

Tick(horizon) ==
    /\ now < horizon
    /\ Commit([W EXCEPT !.now = @ + 1])

\* The host (or a runner's start/stop) registers and unregisters ids.
HostRegister(a) == Commit(RegisterAgent(W, a))

HostUnregister(a) == Commit(UnregisterAgent(W, a))

\* A caller builds a message and sends it.
HostSend(sender, receiver, kind, expires) ==
    /\ nextMsgId <= MaxMsgs
    /\ LET m == Message(nextMsgId, sender, receiver, kind, expires, NoContent)
       IN Commit(Send([W EXCEPT !.nextMsgId = @ + 1], m).w)

\* A caller builds a message, sends it and keeps a record of the call.
HostSendLogged(sender, receiver, kind, expires) ==
    /\ nextMsgId <= HistMaxMsgs
    /\ LET m == Message(nextMsgId, sender, receiver, kind, expires, NoContent)
       IN Commit([Send([W EXCEPT !.nextMsgId = @ + 1], m).w EXCEPT
                     !.sendLog = Append(@, [m |-> m, at |-> now])])

\* The host subscribes and unsubscribes ids, registered or not, and
\* publishes a message it builds.
HostSubscribe(a, t) == Commit(Subscribe(W, a, t))

HostUnsubscribe(a, t) == Commit(Unsubscribe(W, a, t))

HostPublish(t, sender, kind) ==
    /\ nextMsgId <= MaxMsgs
    /\ LET m == Message(nextMsgId, sender, NoReceiver, kind, NoExpiry,
                        NoContent)
       IN Commit(Publish([W EXCEPT !.nextMsgId = @ + 1], t, m).w)

\* The host publishes a message that may carry an expiry time.
HostPublishExpiring(t, sender, kind, expires) ==
    /\ nextMsgId <= TopicMaxMsgs
    /\ LET m == Message(nextMsgId, sender, NoReceiver, kind, expires,
                        NoContent)
       IN Commit(Publish([W EXCEPT !.nextMsgId = @ + 1], t, m).w)

\* The host sends a message to the agents its map places at a location.
HostSendNearby(sender, kind, expires, location, locs) ==
    /\ nextMsgId <= TopicMaxMsgs
    /\ LET m == Message(nextMsgId, sender, NoReceiver, kind, expires,
                        NoContent)
       IN Commit(SendToNearby([W EXCEPT !.nextMsgId = @ + 1], m, location,
                              locs).w)

\* A runner takes the next message of its mailbox (inbox.get_nowait()).
Take(a) ==
    /\ a \in DOMAIN inboxes
    /\ inboxes[a] # <<>>
    /\ Commit([W EXCEPT !.inboxes[a] = Tail(@)])

MgrStart(id, type, initiator, participants) ==
    /\ totalInteractions < MgrMaxStarts
    /\ Commit(StartInteraction(W, id, type, initiator, participants))

MgrComplete(id, outcome) ==
    Commit(CompleteInteraction(W, id, outcome).w)

\* A caller starts an interaction when the one before is completed, up to
\* one more than the history retains.
HistStart(id, type, initiator, participants) ==
    /\ totalInteractions <= MgrMaxHistory
    /\ id \notin DOMAIN active
    /\ Commit(StartInteraction(W, id, type, initiator, participants))

\* run() up to the gather of the runners' start().  The host calls it while
\* the clock followed still covers max_duration.
RunBegin ==
    /\ ctl.run = "idle"
    /\ now + MaxDuration <= SysMaxTime
    /\ LET w1 == IF coord.runners = {} THEN Setup(W) ELSE W
       IN Commit([w1 EXCEPT !.coord.running = TRUE,
                            !.coord.startTime = now,
                            !.coord.tick = 0,
                            !.ctl.start = [c \in Citizens |-> "ready"],
                            !.ctl.run = "starting",
                            !.ctl.runs = @ + 1])

\* The host calls run() again on a coordinator whose run() has ended: the
\* records of the call before (its exception, its finally clause's stop())
\* are over.
RunAgain ==
    /\ ctl.run \in {"returned", "raised"}
    /\ ctl.runs < MaxRuns
    /\ now + MaxDuration <= SysMaxTime
    /\ LET w1 == IF coord.runners = {} THEN Setup(W) ELSE W
       IN Commit([w1 EXCEPT !.coord.running = TRUE,
                            !.coord.startTime = now,
                            !.coord.tick = 0,
                            !.ctl.start = [c \in Citizens |-> "ready"],
                            !.ctl.run = "starting",
                            !.ctl.runs = @ + 1,
                            !.ctl.exc = "none",
                            !.ctl.stop["fin"] = [c \in Citizens |-> "none"]])

\* A start() task runs: it returns, or raises before it changed anything.
StartTask(c) ==
    /\ ctl.start[c] = "ready"
    /\ \/ Commit([RunnerStart(W, c) EXCEPT !.ctl.start[c] = "done"])
       \/ Commit([W EXCEPT !.ctl.start[c] = "raised"])

\* The gather returns or raises: every start task has run by then, since
\* start() does not suspend and the tasks were queued before the wake-up.
RunGatheredUpTo(maxTicks) ==
    /\ ctl.run = "starting"
    /\ \A c \in Citizens : ctl.start[c] # "ready"
    /\ IF \E c \in Citizens : ctl.start[c] = "raised"
       THEN Commit(RunFinally(W, "start"))
       ELSE \E w \in CoordLoopUpTo([W EXCEPT !.ctl.metricsLast = now],
                                   maxTicks) : Commit(w)

RunGathered == RunGatheredUpTo(MaxTicks)

\* The tick sleep ends.
RunWakeUpTo(maxTicks) ==
    /\ ctl.run = "sleep"
    /\ \E w \in CoordLoopUpTo(W, maxTicks) : Commit(w)

RunWake == RunWakeUpTo(MaxTicks)

\* The gather of run()'s stop() returns: run() returns its results, or the
\* exception in flight goes on.
RunEnd ==
    /\ ctl.run = "stopping"
    /\ \A c \in Citizens : ctl.stop["fin"][c] = "done"
    /\ Commit([W EXCEPT !.ctl.run =
                            IF ctl.exc = "none" THEN "returned" ELSE "raised"])

\* The host calls coordinator.stop().
ExtStop ==
    /\ ctl.ext = "idle"
    /\ ctl.run = "sleep"
    /\ Commit([StopBegin(W, "ext") EXCEPT !.ctl.ext = "stopping"])

ExtStopEnd ==
    /\ ctl.ext = "stopping"
    /\ \A c \in Citizens : ctl.stop["ext"][c] = "done"
    /\ Commit([W EXCEPT !.ctl.ext = "done"])

\* A runner.stop() task of stop call k runs; it was queued after the start
\* task of its runner.
StopTask(k, c) ==
    /\ ctl.stop[k][c] = "ready"
    /\ ctl.start[c] # "ready"
    /\ LET o == RunnerStopBegin(W, c)
       IN Commit([o.w EXCEPT !.ctl.stop[k][c] = o.pc])

\* The awaited loop task has finished.
StopTaskEnd(k, c) ==
    /\ \/ ctl.stop[k][c] = "await" /\ runner[c].task = "done"
       \/ ctl.stop[k][c] = "await_old" /\ runner[c].old = "none"
    /\ Commit([RunnerStopEnd(W, c) EXCEPT !.ctl.stop[k][c] = "done"])

\* The loop task of c runs from a sleep of _run_loop.
RunnerStep(c) ==
    /\ runner[c].task \in {"poll", "backoff"}
    /\ ~runner[c].cancelled
    /\ \E o \in LoopIteration(W, c) :
         Commit(Suspend(o, c))

\* The settle sleep of a conversation begun by _maybe_interact ends.
SettleDone(c) ==
    /\ runner[c].task = "settle"
    /\ ~runner[c].cancelled
    /\ Commit(Suspend(Outcome(FinishConversation(W, c), "poll"), c))

\* The settle sleep of a conversation begun by _respond_to_chat ends; the
\* drain goes on.
SettleChatDone(c) ==
    /\ runner[c].task = "settle_chat"
    /\ ~runner[c].cancelled
    /\ \E o \in UNION {AfterDrain(d, c) :
                           d \in ProcessMessages(FinishConversation(W, c), c)} :
         Commit(Suspend(o, c))

\* The executor call of the AI provider returns or raises.
AiDone(c) ==
    /\ runner[c].task = "ai_wait"
    /\ ~runner[c].cancelled
    /\ \E o \in UNION {AfterThink(t, c) : t \in AiResult(W, c)} :
         Commit(Suspend(o, c))

\* The cancelled loop task runs.
TaskCancelled(c) ==
    /\ runner[c].task \in Suspended
    /\ runner[c].cancelled
    /\ Commit(Cancelled(W, c))

\* The host sends a message of its own over the bus.
Inject(sender, receiver, kind) ==
    /\ nextMsgId <= MaxInjects
    /\ ctl.run = "sleep"
    /\ LET m == Message(nextMsgId, sender, receiver, kind, NoExpiry, NoContent)
       IN Commit(Send([W EXCEPT !.nextMsgId = @ + 1], m).w)

\* The host sends a runner a trade offer in the name of agent s.
HostOffer(s, r, value, cost, expires) ==
    /\ nextMsgId <= MaxInjects
    /\ LET m == Message(nextMsgId, s, r, "TRADE_OFFER", expires,
                        [value |-> value, cost |-> cost])
       IN Commit(Send([W EXCEPT !.nextMsgId = @ + 1], m).w)

\* The displaced cancelled task runs.
OldTaskCancelled(c) ==
    /\ runner[c].old \in Suspended
    /\ Commit(OldCancelled(W, c))

\* The host calls runner.start() on a runner it holds; one displaced task
\* per runner is followed at a time.
HostStart(c) ==
    /\ runner[c].old = "none"
    /\ \A k \in StopCalls : ctl.stop[k][c] # "await_old"
    /\ Commit(RunnerStart(W, c))

\* The host calls runner.stop(), one call per runner at a time.
HostStop(c) ==
    /\ ctl.stop["ext"][c] \in {"none", "done"}
    /\ LET o == RunnerStopBegin(W, c)
       IN Commit([o.w EXCEPT !.ctl.stop["ext"][c] = o.pc])

\* The host registers a callback before it calls run().
Registered == Len(callbacks["tick"]) + Len(callbacks["action"])
                  + Len(callbacks["interaction"])

OnTick(cb) ==
    /\ ctl.run = "idle"
    /\ Registered < MaxCallbacks
    /\ Commit(Register(W, "tick", cb))

OnAction(cb) ==
    /\ ctl.run = "idle"
    /\ Registered < MaxCallbacks
    /\ Commit(Register(W, "action", cb))

OnInteraction(cb) ==
    /\ ctl.run = "idle"
    /\ Registered < MaxCallbacks
    /\ Commit(Register(W, "interaction", cb))

\* The values of needs.social a citizen is handed to the coordinator with.
SocialChoices == {500, 980}

\* The host sets a citizen's social need before the citizen's runner is
\* first started.
HostSetSocial(c, v) ==
    /\ runner[c].task = "none"
    /\ ~runner[c].running
    /\ citizen[c].social # v
    /\ Commit([W EXCEPT !.citizen[c].social = v])

\* -------------------------------------------------------- specifications

InitBus ==
    /\ inboxes = EmptyDict
    /\ agents = {}
    /\ subscriptions = EmptyDict
    /\ lock = FALSE
    /\ unguarded = FALSE
    /\ busHistory = <<>>
    /\ messagesSent = 0
    /\ messagesDelivered = 0
    /\ nextMsgId = 1
    /\ sendLog = <<>>

InitMgr ==
    /\ active = EmptyDict
    /\ mgrHistory = <<>>
    /\ cooldowns = EmptyDict
    /\ totalInteractions = 0
    /\ successfulInteractions = 0

\* A citizen's needs.social and traits.
NewCitizen == [social |-> 500, extraversion |-> 500, agreeableness |-> 500,
               openness |-> 500]

\* A run's configuration: the providers, SimulationConfig's
\* social_probability and agent_action_interval, and the counted actions per
\* runner that are followed.
Config(ai, fb, p) ==
    [ai |-> ai, fb |-> fb, p |-> p, actionInterval |-> ActionInterval,
     acts |-> MaxActions]

\* The configurations followed: the AI provider (absent; present, each call
\* returning or raising; raising on every call), the citizen's decision
\* model (present, each call returning or raising; raising on every call)
\* and social_probability.
Configs ==
    {Config("absent", "present", 300),
     Config("present", "present", 300),
     Config("raises", "present", 300),
     Config("raises", "raises", 300)}

InitSys ==
    /\ runner = [c \in Citizens |-> NewRunner]
    /\ ctx = [c \in Citizens |-> NewContext(0)]
    /\ citizen = [c \in Citizens |-> NewCitizen]
    /\ coord = [running |-> FALSE, startTime |-> NoTime, tick |-> 0,
                metrics |-> <<>>, runners |-> {}]
    /\ ctl = [run |-> "idle", runs |-> 0, metricsLast |-> NoTime,
              start |-> [c \in Citizens |-> "none"],
              stop |-> [k \in StopCalls |-> [c \in Citizens |-> "none"]],
              ext |-> "idle", exc |-> "none"]
    /\ callbacks = NoCallbacks
    /\ invoked = NoneInvoked

Init ==
    /\ now = 0
    /\ InitBus
    /\ InitMgr
    /\ InitSys
    /\ cfg \in Configs

\* The bus and the manager on their own run under one configuration.
InitAlone ==
    /\ Init
    /\ cfg = Config("absent", "present", 300)

BusKinds == {"GREET"}

BusSenders == {"a1", "a2"}

NextBus ==
    \/ Tick(BusMaxTime)
    \/ \E a \in Agents : HostRegister(a)
    \/ \E a \in Agents : HostUnregister(a)
    \/ \E s \in BusSenders, r \in Agents \cup {NoReceiver}, k \in BusKinds,
         e \in {NoExpiry, 0} : HostSend(s, r, k, e)
    \/ \E a \in Agents : Take(a)

SpecBus == InitAlone /\ [][NextBus]_vars

\* The bus under a caller that sends more messages than the history
\* retains, some of them expired at the call, to one mailbox or to all.
NextBusHist ==
    \/ Tick(BusMaxTime)
    \/ \E a \in Citizens : HostRegister(a)
    \/ \E a \in Citizens : HostUnregister(a)
    \/ \E r \in {"a2", NoReceiver}, e \in {NoExpiry, 0} :
         HostSendLogged("a1", r, "GREET", e)

SpecBusHist == InitAlone /\ [][NextBusHist]_vars

Topics == {"news", "jobs"}

\* The bus with topics: the host registers, subscribes, publishes and sends.
NextTopic ==
    \/ \E a \in Agents : HostRegister(a)
    \/ \E a \in Agents : HostUnregister(a)
    \/ \E a \in Citizens, t \in Topics : HostSubscribe(a, t)
    \/ \E a \in Citizens, t \in Topics : HostUnsubscribe(a, t)
    \/ /\ nextMsgId <= TopicMaxMsgs
       /\ \E t \in Topics, s \in BusSenders, k \in BusKinds :
            HostPublish(t, s, k)
    \/ /\ nextMsgId <= TopicMaxMsgs
       /\ \E s \in BusSenders, r \in Agents \cup {NoReceiver},
              k \in BusKinds : HostSend(s, r, k, NoExpiry)
    \/ \E a \in Agents : Take(a)

SpecTopic == InitAlone /\ [][NextTopic]_vars

\* The locations of a caller's map, and the maps it may pass: every map from
\* some of the agent ids to a location.  The dock is a location no map uses.
Locations == {"park", "cafe"}

LocationMaps == UNION {[D -> Locations] : D \in SUBSET Agents}

\* The bus under a host that registers and subscribes ids and then publishes
\* to a topic or sends to a location a message that may carry an expiry
\* time.
NextReach ==
    \/ Tick(BusMaxTime)
    \/ \E a \in Agents : HostRegister(a)
    \/ \E a \in Agents : HostUnregister(a)
    \/ \E a \in Citizens, t \in Topics : HostSubscribe(a, t)
    \/ \E a \in Citizens, t \in Topics : HostUnsubscribe(a, t)
    \/ \E t \in Topics, s \in BusSenders, e \in {NoExpiry, 0} :
         HostPublishExpiring(t, s, "GREET", e)
    \/ \E s \in BusSenders, e \in {NoExpiry, 0},
          l \in Locations \cup {"dock"}, locs \in LocationMaps :
         HostSendNearby(s, "GREET", e, l, locs)
    \/ \E a \in Agents : Take(a)

SpecReach == InitAlone /\ [][NextReach]_vars

\* The participant lists tried, the initiator first.
Pairs == {<<"a1", "a2">>, <<"a2", "a3">>, <<"a3", "a1">>}

NextMgr ==
    \/ Tick(MgrMaxTime)
    \/ \E id \in InteractionIds, t \in InteractionType, p \in Pairs :
         MgrStart(id, t, p[1], p)
    \/ \E id \in InteractionIds, o \in {"completed", "failure"} :
         MgrComplete(id, o)

SpecMgr == InitAlone /\ [][NextMgr]_vars

\* The calls of a manager whose history fills up and overflows: conversations
\* of two pairs under one id, completed with an outcome of each class.
HistPairs == {<<"a1", "a2">>, <<"a2", "a3">>}

HistOutcomes == {"completed", "failure"}

NextHist ==
    \/ \E p \in HistPairs : HistStart("int_1", "CONVERSATION", p[1], p)
    \/ \E id \in InteractionIds, o \in HistOutcomes : MgrComplete(id, o)

SpecHist == InitAlone /\ [][NextHist]_vars

\* The kinds of message the host sends to runners.
InjectKinds == {"CHAT"}

Next ==
    \/ Tick(SysMaxTime)
    \/ RunBegin
    \/ \E c \in Citizens : StartTask(c)
    \/ RunGathered
    \/ RunWake
    \/ RunEnd
    \/ ExtStop
    \/ ExtStopEnd
    \/ \E k \in StopCalls, c \in Citizens : StopTask(k, c)
    \/ \E k \in StopCalls, c \in Citizens : StopTaskEnd(k, c)
    \/ \E c \in Citizens : RunnerStep(c)
    \/ \E c \in Citizens : SettleDone(c)
    \/ \E c \in Citizens : AiDone(c)
    \/ \E c \in Citizens : TaskCancelled(c)

\* The coordinator and its runners, with no message but the runners' own.
Spec == Init /\ [][Next]_vars

\* The same under fair scheduling and an advancing clock: the event loop
\* runs every ready task and fires every timer, and a cancelled task is
\* resumed.
Fairness ==
    /\ WF_vars(Tick(SysMaxTime))
    /\ WF_vars(RunGathered)
    /\ WF_vars(RunWake)
    /\ WF_vars(RunEnd)
    /\ \A c \in Citizens :
          /\ WF_vars(StartTask(c))
          /\ WF_vars(TaskCancelled(c))
          /\ WF_vars(StopTask("fin", c))
          /\ WF_vars(StopTaskEnd("fin", c))

\* Every failure pattern of the providers is a behaviour of this one
\* configuration.
InitPresent ==
    /\ Init
    /\ cfg = Config("present", "present", 300)

FairSpec == InitPresent /\ [][Next]_vars /\ Fairness

\* The system with a host that sends messages of its own to the runners.
NextChat ==
    \/ Next
    \/ \E c \in Citizens : SettleChatDone(c)
    \/ \E s \in Citizens, k \in InjectKinds :
         \E r \in Citizens \ {s} : Inject(s, r, k)

SpecChat == InitPresent /\ [][NextChat]_vars

\* Runners the host starts itself and never stops.
NextSolo ==
    \/ Tick(SysMaxTime)
    \/ \E c \in Citizens : HostStart(c)
    \/ \E c \in Citizens : RunnerStep(c)
    \/ \E c \in Citizens : SettleDone(c)
    \/ \E c \in Citizens : AiDone(c)

\* The event loop fires every timer of a runner's loop; nothing makes the
\* executor call of the AI provider return.
FairnessSolo ==
    /\ WF_vars(Tick(SysMaxTime))
    /\ \A c \in Citizens :
          /\ WF_vars(RunnerStep(c))
          /\ WF_vars(SettleDone(c))

FairSolo == InitPresent /\ [][NextSolo]_vars /\ FairnessSolo

\* Runners the host starts and stops itself, at any time.
NextRestart ==
    \/ Tick(SysMaxTime)
    \/ \E c \in Citizens : HostStart(c)
    \/ \E c \in Citizens : HostStop(c)
    \/ \E c \in Citizens : StopTaskEnd("ext", c)
    \/ \E c \in Citizens : RunnerStep(c)
    \/ \E c \in Citizens : SettleDone(c)
    \/ \E c \in Citizens : AiDone(c)
    \/ \E c \in Citizens : TaskCancelled(c)
    \/ \E c \in Citizens : OldTaskCancelled(c)

SpecRestart == InitPresent /\ [][NextRestart]_vars

\* Runners the host starts itself and never stops, followed over two think
\* intervals and two counted actions, with no AI provider, under an action
\* interval that is the think interval or twice it.
ActionIntervals == {ThinkInterval, 2 * ThinkInterval}

InitPaced ==
    /\ now = 0
    /\ InitBus
    /\ InitMgr
    /\ InitSys
    /\ \E a \in ActionIntervals :
          cfg = [Config("absent", "present", 300) EXCEPT
                     !.actionInterval = a, !.acts = PacedMaxActions]

\* Two runners of any extraversion, started by the host, greet each other.
TraitValues == {0, 500, 1000}

InitGreet ==
    /\ now = 0
    /\ InitBus
    /\ InitMgr
    /\ runner = [c \in Citizens |-> NewRunner]
    /\ ctx = [c \in Citizens |-> NewContext(0)]
    /\ citizen \in [Citizens -> {[NewCitizen EXCEPT !.extraversion = x] :
                                     x \in TraitValues}]
    /\ coord = [running |-> FALSE, startTime |-> NoTime, tick |-> 0,
                metrics |-> <<>>, runners |-> {}]
    /\ ctl = [run |-> "idle", runs |-> 0, metricsLast |-> NoTime,
              start |-> [c \in Citizens |-> "none"],
              stop |-> [k \in StopCalls |-> [c \in Citizens |-> "none"]],
              ext |-> "idle", exc |-> "none"]
    /\ callbacks = NoCallbacks
    /\ invoked = NoneInvoked
    /\ cfg = Config("absent", "present", 300)

NextGreet ==
    \/ Tick(SysMaxTime)
    \/ \E c \in Citizens : runner[c].task = "none" /\ HostStart(c)
    \/ \E c \in Citizens : RunnerStep(c)
    \/ \E c \in Citizens : SettleDone(c)

SpecGreet == InitGreet /\ [][NextGreet]_vars

NextPaced ==
    \/ Tick(PacedMaxTime)
    \/ \E c \in Citizens : runner[c].task = "none" /\ HostStart(c)
    \/ \E c \in Citizens : RunnerStep(c)
    \/ \E c \in Citizens : SettleDone(c)

SpecPaced == InitPaced /\ [][NextPaced]_vars

\* Runners the host starts itself and sends one trade offer, in the name of
\* the other runner or of an agent that never registers, with or without an
\* expiry time.
TradeValues == {0, 1}

NextTrade ==
    \/ Tick(SysMaxTime)
    \/ \E c \in Citizens : runner[c].task = "none" /\ HostStart(c)
    \/ \E r \in Citizens, v, k \in TradeValues, e \in {NoExpiry, 0} :
         \E s \in Agents \ {r} : HostOffer(s, r, v, k, e)
    \/ \E c \in Citizens : RunnerStep(c)
    \/ \E c \in Citizens : SettleDone(c)

SpecTrade == InitAlone /\ [][NextTrade]_vars

\* A coordinator with callbacks: the host registers them, then run() runs
\* to its end with no stop() call of the host and no AI provider.
NextCallbacks ==
    \/ \E cb \in CallbackIds : OnTick(cb)
    \/ \E cb \in CallbackIds : OnAction(cb)
    \/ \E cb \in CallbackIds : OnInteraction(cb)
    \/ Tick(SysMaxTime)
    \/ RunBegin
    \/ \E c \in Citizens : StartTask(c)
    \/ RunGathered
    \/ RunWake
    \/ RunEnd
    \/ \E c \in Citizens : StopTask("fin", c)
    \/ \E c \in Citizens : StopTaskEnd("fin", c)
    \/ \E c \in Citizens : RunnerStep(c)
    \/ \E c \in Citizens : SettleDone(c)
    \/ \E c \in Citizens : TaskCancelled(c)

SpecCallbacks == InitAlone /\ [][NextCallbacks]_vars

\* Runners the host starts once and stops itself, over citizens of differing
\* social need.
NextNeeds ==
    \/ \E c \in Citizens, v \in SocialChoices : HostSetSocial(c, v)
    \/ Tick(SysMaxTime)
    \/ \E c \in Citizens : runner[c].task = "none" /\ HostStart(c)
    \/ \E c \in Citizens : HostStop(c)
    \/ \E c \in Citizens : StopTaskEnd("ext", c)
    \/ \E c \in Citizens : RunnerStep(c)
    \/ \E c \in Citizens : SettleDone(c)
    \/ \E c \in Citizens : AiDone(c)
    \/ \E c \in Citizens : TaskCancelled(c)

SpecNeeds == InitPresent /\ [][NextNeeds]_vars

\* A coordinator the host runs more than once: the steps of run() and
\* stop() and of the start and stop tasks, while every runner's loop finds
\* nothing to do.
NextRerun ==
    \/ Tick(SysMaxTime)
    \/ RunBegin
    \/ RunAgain
    \/ \E c \in Citizens : StartTask(c)
    \/ RunGatheredUpTo(RerunMaxTicks)
    \/ RunWakeUpTo(RerunMaxTicks)
    \/ RunEnd
    \/ ExtStop
    \/ ExtStopEnd
    \/ \E k \in StopCalls, c \in Citizens : StopTask(k, c)
    \/ \E k \in StopCalls, c \in Citizens : StopTaskEnd(k, c)
    \/ \E c \in Citizens : TaskCancelled(c)

SpecRerun == InitAlone /\ [][NextRerun]_vars

\* The same runners under a configuration whose social_probability is 0.
InitShy ==
    /\ now = 0
    /\ InitBus
    /\ InitMgr
    /\ InitSys
    /\ cfg = Config("present", "present", 0)

SpecShy == InitShy /\ [][NextSolo]_vars

\* ------------------------------------------------------------ properties

\* The message the latest counted send() was given.
LastSent(h) == h[Len(h)]

Busy(a) == \E id \in DOMAIN active : Participates(a, active[id])

\* The cooldown_seconds arguments tried.
CooldownChoices == {0, 1, 2, DefaultCooldown}

\* A mailbox holds only messages addressed to its owner (or broadcasts), and
\* the direct messages of one sender wait in it in the order they were sent
\* (ids grow with send order), each once.
MailboxOrdered ==
    \A b \in DOMAIN inboxes :
        LET s == inboxes[b]
        IN /\ \A i \in 1..Len(s) : s[i].receiver \in {b, NoReceiver}
           /\ \A i, j \in 1..Len(s) :
                  (i < j /\ s[i].receiver = b /\ s[j].receiver = b
                         /\ s[i].sender = s[j].sender)
                      => s[i].id < s[j].id

\* A counted direct send to a registered receiver appends the message once to
\* the receiver's mailbox and changes no other mailbox.
DirectDeliveredOnce ==
    (/\ messagesSent' = messagesSent + 1
     /\ ~IsBroadcast(LastSent(busHistory'))
     /\ LastSent(busHistory').receiver \in DOMAIN inboxes)
        => inboxes' = [inboxes EXCEPT ![LastSent(busHistory').receiver] =
                           Append(@, LastSent(busHistory'))]

\* A mailbox gives up its oldest waiting message first.
TakenOldestFirst ==
    \A b \in DOMAIN inboxes \cap DOMAIN inboxes' :
        Len(inboxes'[b]) < Len(inboxes[b]) => inboxes'[b] = Tail(inboxes[b])

\* C2: every non-expired direct message to a registered receiver is put once
\* in the receiver's mailbox and in no other; two such messages of one sender
\* wait in the order they were sent, and the mailbox yields the oldest first,
\* so the receiver's runner handles them in that order.
DirectDeliveryExactlyOnceInOrder ==
    [][DirectDeliveredOnce /\ MailboxOrdered' /\ TakenOldestFirst]_vars

\* C2 witness: two direct messages of one sender wait in the receiver's
\* mailbox, the one sent first in front.
DirectDeliveryWitness ==
    \E b \in DOMAIN inboxes :
        /\ Len(inboxes[b]) = 2
        /\ inboxes[b][1].receiver = b
        /\ inboxes[b][2].receiver = b
        /\ inboxes[b][1].sender = inboxes[b][2].sender
        /\ inboxes[b][1].id < inboxes[b][2].id

\* A counted send of a message with no receiver appends one copy to every
\* mailbox registered at the call but the sender's, which it leaves alone.
BroadcastDelivered ==
    (/\ messagesSent' = messagesSent + 1
     /\ IsBroadcast(LastSent(busHistory')))
        => /\ DOMAIN inboxes' = DOMAIN inboxes
           /\ \A b \in DOMAIN inboxes :
                  inboxes'[b] =
                      IF b # LastSent(busHistory').sender
                      THEN Append(inboxes[b], LastSent(busHistory'))
                      ELSE inboxes[b]

\* C3: a non-expired broadcast puts exactly one copy of the message in the
\* mailbox of every agent registered when send() is called, except the
\* sender's, and nothing in the sender's own mailbox, whatever registrations
\* and unregistrations came before.
BroadcastComplete == [][BroadcastDelivered]_vars

\* C3 witness: the last message sent is a broadcast of a registered sender;
\* it is the newest message of two other mailboxes and not in the sender's.
BroadcastWitness ==
    /\ busHistory # <<>>
    /\ LET m == LastSent(busHistory)
       IN /\ IsBroadcast(m)
          /\ m.sender \in DOMAIN inboxes
          /\ m \notin Range(inboxes[m.sender])
          /\ Cardinality({b \in DOMAIN inboxes :
                              /\ b # m.sender
                              /\ inboxes[b] # <<>>
                              /\ inboxes[b][Len(inboxes[b])] = m}) >= 2

\* The history entries that record agent a's latest completed kind-T
\* interaction.
LatestCompleted(a, T) ==
    {k \in 1..Len(mgrHistory) :
        /\ mgrHistory[k].type = T
        /\ Participates(a, mgrHistory[k])
        /\ \A k2 \in (k + 1)..Len(mgrHistory) :
              ~ /\ mgrHistory[k2].type = T
                /\ Participates(a, mgrHistory[k2])}

\* C4: with nothing started or completed, can_interact is true both ways; and
\* when x and y completed a kind-T interaction at time t (x's latest of that
\* kind) and neither is in an active interaction, can_interact(x, y, T, c) is
\* false before t + c and true from t + c on.
CooldownEnforced ==
    LET w == W
    IN \A x, y \in Agents, T \in InteractionType :
        /\ (mgrHistory = <<>> /\ DOMAIN active = {})
              => \A c \in CooldownChoices :
                     CanInteract(w, x, y, T, c) /\ CanInteract(w, y, x, T, c)
        /\ \A k \in LatestCompleted(x, T) :
              (Participates(y, mgrHistory[k]) /\ ~Busy(x) /\ ~Busy(y))
                  => \A c \in CooldownChoices :
                         CanInteract(w, x, y, T, c)
                             <=> now >= mgrHistory[k].end + c

\* C4 witness: one time unit after x and y completed an interaction, a
\* cooldown of 1 has run out and a cooldown of 2 has not.
CooldownWitness ==
    \E x, y \in Agents :
        /\ x # y
        /\ mgrHistory # <<>>
        /\ LET h == mgrHistory[Len(mgrHistory)]
           IN /\ {x, y} \subseteq Range(h.participants)
              /\ now = h.end + 1
              /\ CanInteract(W, x, y, h.type, 1)
              /\ ~CanInteract(W, x, y, h.type, 2)

\* C5: can_interact(agent, other, T, c) is false exactly when agent or other
\* takes part in an active interaction, or agent's latest completed kind-T
\* interaction ended less than c ago; what other completed, and what agent
\* completed of another kind, does not count.
CanInteractExactly ==
    LET w == W
        busy == {a \in Agents : Busy(a)}
    IN \A agent \in Agents, T \in InteractionType :
        LET latest == LatestCompleted(agent, T)
        IN \A other \in Agents, c \in CooldownChoices :
            ~CanInteract(w, agent, other, T, c)
                <=> \/ agent \in busy
                    \/ other \in busy
                    \/ \E k \in latest : now - mgrHistory[k].end < c

\* C5 witness: other is still in its kind-T cooldown, agent is in a cooldown
\* of another kind only, and can_interact(agent, other, T) is true.
CanInteractWitness ==
    \E agent, other \in Agents, T, U \in InteractionType :
        /\ agent # other /\ T # U
        /\ \E k \in LatestCompleted(other, T) :
               now - mgrHistory[k].end < DefaultCooldown
        /\ \E k \in LatestCompleted(agent, U) :
               now - mgrHistory[k].end < DefaultCooldown
        /\ LatestCompleted(agent, T) = {}
        /\ CanInteract(W, agent, other, T, DefaultCooldown)

\* The shapes of the system's control state.
TypeOK ==
    /\ \A c \in Citizens :
          /\ runner[c].task \in TaskPc
          /\ ctx[c].state \in AgentState
          /\ ctx[c].curInter \in InteractionIds \cup {NoInteraction}
    /\ \A b \in DOMAIN inboxes :
          \A m \in Range(inboxes[b]) : m.kind \in MessageType
    /\ agents = DOMAIN inboxes

\* The active interactions agent a is a participant of.
ActiveOf(a) == {id \in DOMAIN active : Participates(a, active[id])}

\* C1: in every reachable state of the runners sharing one manager, every
\* agent id is in the participant list of at most one active interaction.
MutualExclusion == \A a \in Agents : Cardinality(ActiveOf(a)) <= 1

\* A loop task that is not live: never created, or finished.
Settled(c) == runner[c].task \in {"none", "done"}

\* C6: once a coordinator.stop() call has completed (the host's, or the one
\* run() makes), the bus has no registered agent and no mailbox, and every
\* runner's loop task is settled.
GracefulShutdown ==
    \A k \in StopCalls :
        (\A c \in Citizens : ctl.stop[k][c] = "done")
            => /\ agents = {}
               /\ DOMAIN inboxes = {}
               /\ \A c \in Citizens : Settled(c)

\* C6 witness: the host's stop() has completed; it found one runner in a
\* conversation (whose interaction is still active) and cancelled both loop
\* tasks.
GracefulShutdownWitness ==
    /\ ctl.ext = "done"
    /\ \A c \in Citizens : ctl.stop["ext"][c] = "done" /\ runner[c].task = "done"
    /\ agents = {}
    /\ DOMAIN active # {}

\* C7: when run() has returned or raised, the stop() of its finally clause
\* has been called and has completed, and no runner's loop task is live.
GuaranteedStop ==
    ctl.run \in {"returned", "raised"}
        => /\ ~coord.running
           /\ \A c \in Citizens : ctl.stop["fin"][c] = "done" /\ Settled(c)

\* C7 witness: a start() raised while another runner had started; run() has
\* raised after stopping the runner that had started.
GuaranteedStopWitness ==
    /\ ctl.run = "raised"
    /\ ctl.exc = "start"
    /\ \E c \in Citizens : runner[c].task = "done"
    /\ \A c \in Citizens : ctl.stop["fin"][c] = "done"

\* Once run() has left its loop the tick count stays.
NoTickAfterLimit ==
    ctl.run \in {"stopping", "returned", "raised"} => coord'.tick = coord.tick

\* C8: under fair scheduling and an advancing clock, a run() that has begun
\* returns its results unless an exception that is no callback, action or
\* provider failure is in flight; and once its loop has seen the duration
\* limit (or any other exit) the tick count no longer changes.
RunReturnsResults ==
    /\ (ctl.run = "starting") ~> (ctl.run = "returned" \/ ctl.exc # "none")
    /\ [][NoTickAfterLimit]_vars

\* C8 witness: run() has returned at the duration limit, after a tick, with
\* no stop() call of the host.
RunReturnsResultsWitness ==
    /\ ctl.run = "returned"
    /\ ctl.ext = "idle"
    /\ coord.tick >= 1
    /\ now - coord.startTime >= MaxDuration

\* C9: when the AI provider raises on every call, a runner whose loop task
\* is between decision cycles (asleep in its loop, or finished) is Idle, and
\* the loop task finishes only once the runner has been stopped.
FallbackContainment ==
    cfg.ai = "raises"
        => \A c \in Citizens :
               /\ runner[c].task \in {"poll", "backoff", "done"}
                      => ctx[c].state = "IDLE"
               /\ runner[c].task = "done" => ~runner[c].running

\* C9 witness: the AI provider and the fallback both raise; a running runner
\* is Idle in the back-off sleep of its loop.
FallbackContainmentWitness ==
    /\ cfg.ai = "raises"
    /\ cfg.fb = "raises"
    /\ \E c \in Citizens :
         /\ runner[c].task = "backoff"
         /\ runner[c].running
         /\ ctx[c].state = "IDLE"

\* C10 as stated: when the AI provider raises on every call, actions_taken
\* never increases (it stays 0).
ActionsStopWhenProviderRaises ==
    cfg.ai = "raises" => \A c \in Citizens : runner[c].actionsTaken = 0

\* C10 amended: when the AI provider (if configured) and the citizen's
\* fallback decision model both raise on every call, actions_taken never
\* increases.
ActionsStopWhenEveryProviderRaises ==
    (cfg.ai # "present" /\ cfg.fb = "raises")
        => \A c \in Citizens : runner[c].actionsTaken = 0

\* C10 witness: both providers raise, every runner has been through a
\* decision cycle at time 1 and none has taken an action.
ActionsStopWitness ==
    /\ cfg.ai = "raises"
    /\ cfg.fb = "raises"
    /\ \A c \in Citizens :
         /\ ctx[c].lastDecision = 1
         /\ runner[c].task = "backoff"
         /\ runner[c].actionsTaken = 0

\* C11: a runner that is not being stopped never remains Thinking: a
\* provider call that does not return is abandoned and the runner leaves
\* Thinking.
ProviderTimeout ==
    \A c \in Citizens :
        (ctx[c].state = "THINKING") ~> (ctx[c].state # "THINKING")

\* C12: on every path out of the Interacting state the interaction the
\* runner started has been completed: a runner that is not Interacting is
\* the initiator of no active interaction.
UnconditionalCompletion ==
    \A c \in Citizens :
        ctx[c].state # "INTERACTING"
            => \A id \in DOMAIN active : active[id].initiator # c

\* The outcomes complete_interaction is called with.
OutcomeChoices == {"completed", "failure"}

\* An interaction has no end time and no outcome while it is active, and has
\* both once it is in the history.
EndTimeWithCompletion ==
    /\ \A id \in DOMAIN active :
          active[id].end = NoTime /\ active[id].outcome = "pending"
    /\ \A k \in 1..Len(mgrHistory) :
          mgrHistory[k].end # NoTime /\ mgrHistory[k].outcome # "pending"

\* complete_interaction of an id that is not active returns None and leaves
\* the manager as it is.
InactiveIdIgnored ==
    \A id \in InteractionIds \ DOMAIN active, o \in OutcomeChoices :
        CompleteInteraction(W, id, o) = [w |-> W, ret |-> NoInteraction]

\* A step changes the history, the cooldown table or the success counter, or
\* removes an active interaction, only by completing one interaction that
\* was active: it gets its end time and outcome there and becomes the newest
\* history entry, and the entries completed before keep theirs.
ChangedByFirstCompletionOnly ==
    (\/ mgrHistory' # mgrHistory
     \/ cooldowns' # cooldowns
     \/ successfulInteractions' # successfulInteractions
     \/ DOMAIN active \ DOMAIN active' # {})
        => \E id \in DOMAIN active, o \in OutcomeChoices :
               /\ active' = Drop(active, id)
               /\ mgrHistory' =
                      Append(mgrHistory,
                             [active[id] EXCEPT !.end = now, !.outcome = o])
               /\ successfulInteractions' - successfulInteractions
                      = IF o \in SuccessOutcomes THEN 1 ELSE 0
               /\ totalInteractions' = totalInteractions

\* C13: an interaction's end time is set exactly once, by the first
\* complete_interaction call for its id while it is active; a call for an id
\* that is not active (completed before, or unknown) returns None and
\* changes neither the active set, the history, the cooldowns nor the
\* counters.
EndTimeSetOnce ==
    /\ [](EndTimeWithCompletion /\ InactiveIdIgnored)
    /\ [][ChangedByFirstCompletionOnly]_vars

\* C13 witness: an interaction completed at an earlier time is in the
\* history with that end time, and its id is not active: a repeated call for
\* it would now set a later end time.
EndTimeSetOnceWitness ==
    \E k \in 1..Len(mgrHistory) :
        /\ mgrHistory[k].id \notin DOMAIN active
        /\ mgrHistory[k].end # NoTime
        /\ mgrHistory[k].end < now

\* A completion appends the completed interaction to the history, after
\* dropping the oldest entry when the history is full.
NewestKeptOldestDropped ==
    /\ mgrHistory' # mgrHistory => DOMAIN active \ DOMAIN active' # {}
    /\ \A id \in DOMAIN active \ DOMAIN active' :
          \E o \in OutcomeChoices :
              LET i == [active[id] EXCEPT !.end = now, !.outcome = o]
              IN mgrHistory' =
                     IF Len(mgrHistory) < MgrMaxHistory
                     THEN Append(mgrHistory, i)
                     ELSE Append(Tail(mgrHistory), i)

\* C14: the history never holds more than max_history interactions, and
\* every completion adds the completed interaction as the newest entry and
\* drops the oldest one exactly when the history is full; so the history is
\* the latest min(n, max_history) completions in completion order.
HistoryEviction ==
    /\ [](Len(mgrHistory) <= MgrMaxHistory)
    /\ [][NewestKeptOldestDropped]_vars

\* C14 witness: more interactions have been completed than the history
\* retains (each success is counted), the history is full, and its newest
\* entry is a failure completed after them.
HistoryEvictionWitness ==
    /\ Len(mgrHistory) = MgrMaxHistory
    /\ successfulInteractions >= MgrMaxHistory
    /\ mgrHistory[MgrMaxHistory].outcome = "failure"

\* The retained interactions that both a and b take part in.
SharedBy(a, b) ==
    {k \in 1..Len(mgrHistory) :
        Participates(a, mgrHistory[k]) /\ Participates(b, mgrHistory[k])}

\* +0.1 per success and -0.15 per failure among the interactions `shared`,
\* in thousandths.
RawOf(shared) ==
    100 * Cardinality({k \in shared :
                           mgrHistory[k].outcome \in SuccessOutcomes})
        - 150 * Cardinality({k \in shared :
                                 mgrHistory[k].outcome
                                     \in {"failure", "negative", "conflict"}})

RawScore(a, b) == RawOf(SharedBy(a, b))

SendChoices ==
    {Message(nextMsgId, s, r, k, e, NoContent) :
        s \in BusSenders, r \in Agents \cup {NoReceiver}, k \in BusKinds,
        e \in {NoExpiry, 0}}

\* A message send() cannot deliver: expired, or direct to no mailbox.
Undeliverable(m) ==
    \/ IsExpired(m, now)
    \/ ~IsBroadcast(m) /\ m.receiver \notin DOMAIN inboxes

\* send() of an undeliverable message returns False and leaves every mailbox,
\* the registry and the delivered count as they are; an expired one leaves
\* the whole bus as it is.
RefusedSendReturnsFalse ==
    LET w == W
    IN \A m \in SendChoices :
        Undeliverable(m)
            => LET r == Send(w, m)
               IN /\ r.ret = FALSE
                  /\ r.w.inboxes = inboxes
                  /\ r.w.agents = agents
                  /\ r.w.messagesDelivered = messagesDelivered
                  /\ IsExpired(m, now) => r.w = w

\* A send() call (it takes a fresh message id) that is not counted, or whose
\* message is direct to an id without a mailbox, changes no mailbox.
RefusedSendEnqueuesNothing ==
    (/\ nextMsgId' = nextMsgId + 1
     /\ \/ messagesSent' = messagesSent
        \/ /\ ~IsBroadcast(LastSent(busHistory'))
           /\ LastSent(busHistory').receiver \notin DOMAIN inboxes)
        => /\ inboxes' = inboxes
           /\ messagesDelivered' = messagesDelivered

\* C16: send(msg) of a message that is expired at the call, or whose direct
\* receiver is not registered, returns False (it has no raising path) and
\* puts msg in no mailbox.
DeliveryFailureIsValue ==
    /\ []RefusedSendReturnsFalse
    /\ [][RefusedSendEnqueuesNothing]_vars

\* C16 witness: of two send() calls one was refused as expired (it is not
\* counted) and the other, counted, was direct to an id without a mailbox;
\* an agent is registered and every mailbox is empty.
DeliveryFailureWitness ==
    /\ nextMsgId = 3
    /\ messagesSent = 1
    /\ ~IsBroadcast(LastSent(busHistory))
    /\ LastSent(busHistory).receiver \notin DOMAIN inboxes
    /\ messagesDelivered = 0
    /\ DOMAIN inboxes # {}
    /\ \A b \in DOMAIN inboxes : inboxes[b] = <<>>

\* The messages a caller may hand to publish() in the current state.
PublishChoices ==
    {Message(nextMsgId, s, NoReceiver, k, NoExpiry, NoContent) :
        s \in BusSenders, k \in BusKinds}

\* The topics id a is a subscriber of in world w.
TopicsOf(w, a) == {t \in DOMAIN w.subscriptions : a \in w.subscriptions[t]}

\* unregister(a), applied in the current state, leaves a without mailbox,
\* unregistered and subscribed to no topic.
UnregisterRemoves ==
    \A a \in Agents :
        LET w1 == UnregisterAgent(W, a)
        IN /\ a \notin DOMAIN w1.inboxes
           /\ a \notin w1.agents
           /\ TopicsOf(w1, a) = {}

\* While a has no mailbox, no send, broadcast or publish makes one or puts a
\* message in one for it, and a direct send to it returns False.
UnregisteredGetsNothing ==
    \A a \in Agents \ DOMAIN inboxes :
        /\ \A m \in SendChoices :
              /\ a \notin DOMAIN Send(W, m).w.inboxes
              /\ m.receiver = a => Send(W, m).ret = FALSE
        /\ \A m \in PublishChoices, t \in Topics :
              a \notin DOMAIN Publish(W, t, m).w.inboxes

\* A mailbox appears for an id only empty, by a step that sends nothing
\* (a registration).
MailboxOnlyByRegistration ==
    \A a \in Agents \ DOMAIN inboxes :
        a \in DOMAIN inboxes'
            => /\ inboxes'[a] = <<>>
               /\ nextMsgId' = nextMsgId
               /\ messagesDelivered' = messagesDelivered

\* C17 as stated: unregister(id) leaves id without mailbox, registration
\* and topic subscription, nothing is enqueued for it while it is not
\* registered, and unregistering an id that is not registered changes
\* nothing.
UnregisterUnknownChangesNothing ==
    /\ UnregisterRemoves
    /\ UnregisteredGetsNothing
    /\ \A a \in Agents \ DOMAIN inboxes : UnregisterAgent(W, a) = W

\* C17 amended: as stated, except that unregistering an id that is not
\* registered removes that id's topic subscriptions and changes nothing
\* else (so nothing at all when it is subscribed to no topic).
UnregisterUnknownOnlyPurges ==
    /\ [](/\ UnregisterRemoves
          /\ UnregisteredGetsNothing
          /\ \A a \in Agents \ DOMAIN inboxes :
                /\ UnregisterAgent(W, a)
                       = [W EXCEPT !.subscriptions =
                                       [t \in DOMAIN @ |-> @[t] \ {a}]]
                /\ TopicsOf(W, a) = {} => UnregisterAgent(W, a) = W)
    /\ [][MailboxOnlyByRegistration]_vars

\* C17 witness: an id without mailbox is a subscriber of one topic, no
\* longer of the other, and was sent a direct message, which was counted and
\* not delivered; another agent is registered.
UnregisterWitness ==
    /\ busHistory # <<>>
    /\ LET a == LastSent(busHistory).receiver
       IN /\ a \in Citizens \ DOMAIN inboxes
          /\ DOMAIN subscriptions = Topics
          /\ Cardinality(TopicsOf(W, a)) = 1
    /\ messagesSent = 1
    /\ messagesDelivered = 0
    /\ DOMAIN inboxes # {}

\* C18: register(id) of a registered id leaves the bus as it is: the same
\* mailbox with the messages queued in it, the registry, the subscriptions
\* and the counters.
RegisterIdempotent ==
    \A a \in DOMAIN inboxes :
        LET w1 == RegisterAgent(W, a)
        IN /\ w1.inboxes[a] = inboxes[a]
           /\ w1 = W

\* C18 witness: a registered id with a message waiting in its mailbox is a
\* subscriber of a topic, and registering it again changes nothing.
RegisterIdempotentWitness ==
    \E a \in DOMAIN inboxes :
        /\ inboxes[a] # <<>>
        /\ TopicsOf(W, a) # {}
        /\ messagesDelivered >= 1
        /\ RegisterAgent(W, a) = W

\* The loop tasks of runner c that are live (created and not finished).
LiveTasks(c) ==
    (IF runner[c].task \in Suspended THEN 1 ELSE 0)
        + (IF runner[c].old \in Suspended THEN 1 ELSE 0)

\* C20: start() on a running runner spawns no loop task and leaves the
\* runner, its mailbox and its registration as they are; and a runner never
\* has more than one live loop task.
StartIdempotent ==
    \A c \in Citizens :
        /\ runner[c].running => RunnerStart(W, c) = W
        /\ LiveTasks(c) <= 1

\* C19: once a runner.stop() call has returned, and until start() makes the
\* runner run again, the runner has no live loop task (so it changes no
\* state, takes no action and sends no message) and its agent is not
\* registered with the bus.
StopIsFinal ==
    \A c \in Citizens :
        (\E k \in StopCalls : ctl.stop[k][c] = "done")
            => /\ Settled(c)
               /\ LiveTasks(c) = 0
               /\ c \notin agents
               /\ c \notin DOMAIN inboxes


\* C21: setup() is idempotent: a setup() call on a coordinator that holds
\* runners leaves it with exactly one runner per citizen and leaves every
\* runner it held as it was (not replaced by a new one, not orphaned while
\* its loop task is live); run() calls setup() only when no runner is held.
SetupIdempotent ==
    LET w1 == Setup(W)
    IN /\ w1.coord.runners = Citizens
       /\ \A c \in coord.runners : w1.runner[c] = runner[c]


\* Dispatching an event of any kind in the current state calls every callback
\* registered for the kind once, in registration order, whichever of them
\* raise, and changes nothing but the record of the calls.
AllCalledWhateverRaises ==
    \A e \in Events :
        Dispatch(W, e)
            = {[W EXCEPT !.invoked[e] =
                             [n |-> @.n + 1, calls |-> callbacks[e]]]}

\* A tick, a counted action and a started conversation each dispatch one
\* event to all the callbacks of their kind, after which run() is at its tick
\* sleep and the runner's loop task goes on; nothing else calls a callback.
EventsDispatched ==
    /\ (coord'.tick = coord.tick + 1 /\ ctl'.exc # "fatal")
          => /\ invoked'["tick"] =
                    [n |-> invoked["tick"].n + 1, calls |-> callbacks["tick"]]
             /\ ctl'.run = "sleep"
    /\ \A c \in Citizens :
          runner'[c].actionsTaken = runner[c].actionsTaken + 1
              => /\ invoked'["action"] =
                        [n |-> invoked["action"].n + 1,
                         calls |-> callbacks["action"]]
                 /\ runner'[c].task \in Suspended
    /\ totalInteractions' = totalInteractions + 1
          => /\ invoked'["interaction"] =
                    [n |-> invoked["interaction"].n + 1,
                     calls |-> callbacks["interaction"]]
             /\ \E c \in Citizens : runner'[c].task \in {"settle", "settle_chat"}
    /\ invoked'["tick"] # invoked["tick"] => coord'.tick = coord.tick + 1
    /\ invoked'["action"] # invoked["action"]
          => \E c \in Citizens :
                 runner'[c].actionsTaken = runner[c].actionsTaken + 1
    /\ invoked'["interaction"] # invoked["interaction"]
          => totalInteractions' = totalInteractions + 1

\* C22: for every tick, action and interaction event, every callback
\* registered for the event is called exactly once, in registration order,
\* even when an earlier callback of the event raises (an Exception); a
\* raising callback does not abort the run and changes no runner or
\* coordinator state.
CallbacksIsolated ==
    /\ []AllCalledWhateverRaises
    /\ [][EventsDispatched]_vars

\* C22 witness: cb2 then cb1 were registered for interactions; run() has
\* returned, and the latest conversation started called cb2, then cb1.
CallbacksIsolatedWitness ==
    /\ callbacks["interaction"] = <<"cb2", "cb1">>
    /\ invoked["interaction"].n >= 1
    /\ invoked["interaction"].calls = <<"cb2", "cb1">>
    /\ ctl.run = "returned"


\* _execute_action with a raising action.execute, called by a runner whose
\* loop is about to run, leaves everything as it is: the counters, the
\* times, the record of callbacks called, and the runner Idle.
ExecuteFailureChangesNothing ==
    \A c \in Citizens :
        runner[c].task \in {"poll", "backoff"}
            => ExecuteRaises(SetState(W, c, "THINKING"), c) = W

\* A runner's step counts an action exactly when it stamps last_action_time
\* and dispatches one action event; a step that counts none (the decision
\* gave no action, or action.execute raised) leaves the stamp and calls no
\* action callback.  After a decision cycle the loop task goes on.
NoCountNoCallback ==
    /\ \A c \in Citizens :
          /\ runner'[c].actionsTaken # runner[c].actionsTaken
                => /\ runner'[c].actionsTaken = runner[c].actionsTaken + 1
                   /\ ctx'[c].lastAction = now
                   /\ invoked'["action"].n = invoked["action"].n + 1
          /\ (runner'[c].actionsTaken = runner[c].actionsTaken
                 /\ ctl.run # "idle")
                => ctx'[c].lastAction = ctx[c].lastAction
          /\ (ctx'[c].lastDecision # ctx[c].lastDecision /\ ctl.run # "idle")
                => /\ runner'[c].task \in Suspended
                   /\ runner'[c].task # "ai_wait" => ctx'[c].state # "THINKING"
                   /\ ctx'[c].state # "ACTING"
    /\ (\A c \in Citizens : runner'[c].actionsTaken = runner[c].actionsTaken)
          => invoked'["action"] = invoked["action"]

\* C23: when action.execute raises, the exception is caught: actions_taken
\* and last_action_time are unchanged, no on_action callback is called for
\* the cycle, the runner is Idle again and its loop continues.
ExecuteFailureIsNoOp ==
    /\ []ExecuteFailureChangesNothing
    /\ [][NoCountNoCallback]_vars

\* C23 witness: with an action callback registered, a running runner has
\* been through a decision cycle that counted no action: no action callback
\* was called, last_action_time is older than the decision, and the runner
\* is Idle at the poll sleep of its loop.
ExecuteFailureWitness ==
    \E c \in Citizens :
        /\ callbacks["action"] # <<>>
        /\ ctx[c].lastDecision = now
        /\ ctx[c].lastAction < ctx[c].lastDecision
        /\ runner[c].actionsTaken = 0
        /\ invoked["action"].n = 0
        /\ ctx[c].state = "IDLE"
        /\ runner[c].running /\ runner[c].task = "poll"
        /\ ExecuteRaises(SetState(W, c, "THINKING"), c) = W


\* C24: every write of the bus's mailbox map, registered-agent set and
\* topic-subscription sets, by register, unregister, subscribe and
\* unsubscribe, is made while the bus's lock is held (and the lock is free
\* between calls).
LockDiscipline == ~unguarded /\ ~lock


\* A step of runner c's own: of its loop task, from any of its suspension
\* points, or of a cancelled loop task of its.
RunnerActs(c) ==
    \/ RunnerStep(c)
    \/ SettleDone(c)
    \/ SettleChatDone(c)
    \/ AiDone(c)
    \/ TaskCancelled(c)
    \/ OldTaskCancelled(c)

\* A step of runner c leaves every other agent's context (its AgentState
\* with it) and every other citizen as they are.
OwnStateOnly ==
    \A c \in Citizens :
        RunnerActs(c)
            => \A d \in Citizens \ {c} :
                   ctx'[d] = ctx[d] /\ citizen'[d] = citizen[d]

\* A step that completes a conversation adds 0.05 to the social need of its
\* initiator, up to 1.0, and changes no other citizen and nothing else of
\* the initiator.
OnlyInitiatorBoosted ==
    \A id \in DOMAIN active \ DOMAIN active' :
        LET c == active[id].initiator
        IN (mgrHistory' # mgrHistory /\ c \in Citizens)
              => citizen' = [citizen EXCEPT ![c].social = Min(1000, @ + 50)]

\* C25: a step taken by runner A leaves every other agent's AgentState and
\* every other citizen's needs unchanged; completing a conversation raises
\* only the initiator's social need, by 0.05 capped at 1.0, and leaves the
\* counterpart's citizen untouched.
Ownership == [][OwnStateOnly /\ OnlyInitiatorBoosted]_vars

\* C25 witness: a citizen handed over with social need 0.98 has completed a
\* conversation it initiated with another citizen: its need is capped at
\* 1.0 and the counterpart's is the one it was handed over with.
OwnershipWitness ==
    \E c, d \in Citizens :
        /\ c # d
        /\ mgrHistory # <<>>
        /\ LET i == mgrHistory[Len(mgrHistory)]
           IN /\ i.initiator = c
              /\ d \in Range(i.participants)
              /\ i.outcome = "completed"
        /\ citizen[c].social = 1000
        /\ citizen[d].social = 500
        /\ totalInteractions = 1


\* C26: the metrics history is time-ordered over the coordinator's whole
\* lifetime, whatever the number of run() calls: of two successive snapshots
\* the later has a tick and an elapsed_seconds that are not lower.
MetricsTimeOrdered ==
    \A i \in 1..(Len(coord.metrics) - 1) :
        /\ coord.metrics[i].tick <= coord.metrics[i + 1].tick
        /\ coord.metrics[i].elapsed <= coord.metrics[i + 1].elapsed


\* C27: start_interaction, called in any state for any kind, initiator and
\* participant list (busy or cooling-down participants included), adds
\* exactly one new active interaction, which it returns, keeps the ones that
\* were active, and adds exactly 1 to total_interactions.
StartAlwaysAddsOne ==
    \A id \in InteractionIds, T \in InteractionType, p \in Pairs :
        LET w1 == StartInteraction(W, id, T, p[1], p)
        IN /\ w1.active[id] = Interaction(id, T, p[1], p)
           /\ w1.totalInteractions = totalInteractions + 1
           /\ Cardinality(DOMAIN w1.active) = Cardinality(DOMAIN active) + 1
           /\ \A j \in DOMAIN active : w1.active[j] = active[j]


\* C28: the chance that the initiation roll passes is the product of the
\* configured social probability, the need-driven urgency and a personality
\* factor; so runners configured with social probability 0 never start an
\* interaction by the roll.
NoInitiationAtZero == cfg.p = 0 => totalInteractions = 0


\* Runner c becomes Interacting in this step.
EntersInteracting(c) ==
    ctx[c].state # "INTERACTING" /\ ctx'[c].state = "INTERACTING"

\* C29: a runner enters Interacting and calls start_interaction only from
\* Idle (a decision cycle that resumes in the step has ended Idle first), and
\* only when can_interact(self, target, CONVERSATION) has just returned true
\* for the target of the interaction it starts, in the same uninterrupted
\* step.
PermissionBeforeInteracting ==
    [][\A c \in Citizens :
          EntersInteracting(c)
              => /\ ctx[c].state = "IDLE" \/ runner[c].task = "ai_wait"
                 /\ \E t \in Agents \ {c}, id \in DOMAIN active' :
                        /\ active'[id] =
                               Interaction(id, "CONVERSATION", c, <<c, t>>)
                        /\ ctx'[c].curInter = id
                        /\ CanInteract(W, c, t, "CONVERSATION",
                                       DefaultCooldown)]_vars



\* C30: every state change a runner makes is one of Idle->Thinking,
\* Thinking->Acting, Thinking->Idle, Acting->Idle, Idle->Interacting,
\* Interacting->Idle; the runner is never in Waiting, Resting or Busy; and
\* its state is Idle whenever its loop task is at the poll sleep that ends a
\* loop iteration.
StateMachine ==
    \A c \in Citizens :
        /\ ~ctx[c].strayed
        /\ ctx[c].state \in {"IDLE", "THINKING", "ACTING", "INTERACTING"}
        /\ runner[c].task = "poll" => ctx[c].state = "IDLE"

\* C30 witness: a runner that has counted an action (Idle->Thinking->Acting->
\* Idle) is Interacting in the settle sleep of a conversation it began from
\* Idle, and the other runner is Idle at its poll sleep.
StateMachineWitness ==
    \E c, d \in Citizens :
        /\ c # d
        /\ runner[c].actionsTaken >= 1
        /\ runner[c].task = "settle" /\ ctx[c].state = "INTERACTING"
        /\ runner[d].task = "poll" /\ runner[d].running
        /\ ctx[d].lastDecision = now /\ ctx[d].state = "IDLE"


\* C31: a decision cycle starts only when the runner is Idle or Waiting and
\* at least think_interval after the start of its previous decision cycle
\* (or after the creation of its context); an iteration of the loop runs at
\* most one decision cycle, after its inbox drain and before its interaction
\* roll.
ThinkGating ==
    \A c \in Citizens :
        /\ ctx[c].prevDecision # NoTime
               => /\ ctx[c].lastDecision - ctx[c].prevDecision >= ThinkInterval
                  /\ ctx[c].decidedIn \in {"IDLE", "WAITING"}
        /\ ~runner[c].misordered
        /\ IsSubSeq(runner[c].phases, LoopOrder)

\* C31 witness: a runner has started its second decision cycle, a think
\* interval after its first, in an iteration that then passed its interaction
\* roll and is in the settle sleep of the conversation it began.
ThinkGatingWitness ==
    \E c \in Citizens :
        /\ ctx[c].prevDecision = ThinkInterval
        /\ ctx[c].lastDecision = 2 * ThinkInterval
        /\ runner[c].task = "settle"
        /\ runner[c].phases = LoopOrder


\* C32: two consecutive executed actions of one agent are at least
\* action_interval apart, whatever think_interval and action_interval are
\* configured.
ActionSpacing ==
    [][\A c \in Citizens :
          (runner[c].actionsTaken >= 1
              /\ runner'[c].actionsTaken > runner[c].actionsTaken)
              => ctx'[c].lastAction - ctx[c].lastAction >= cfg.actionInterval]_vars


\* The reply _respond_to_trade builds for offer m.
TradeReplyTo(c, m, kind) ==
    Message(nextMsgId, c, m.sender, kind, NoExpiry, NoContent)

\* The world after the bus was handed the reply to offer m, taken from c's
\* mailbox: the reply is counted and recorded, and enqueued for the offer's
\* sender if that agent is registered.
TradeReplied(c, m, kind) ==
    LET reply == TradeReplyTo(c, m, kind)
        w1 == [W EXCEPT !.inboxes[c] = Tail(@),
                        !.nextMsgId = @ + 1,
                        !.messagesSent = @ + 1,
                        !.busHistory = LastN(Append(@, reply), BusMaxHistory)]
    IN IF m.sender \in DOMAIN w1.inboxes
       THEN [w1 EXCEPT !.inboxes[m.sender] = Append(@, reply),
                       !.messagesDelivered = @ + 1]
       ELSE w1

\* The replies the comparison of value and cost allows.
TradeAnswers(m) ==
    IF m.content.value > m.content.cost THEN {"TRADE_ACCEPT"}
    ELSE IF m.content.value < m.content.cost THEN {"TRADE_REJECT"}
    ELSE {"TRADE_ACCEPT", "TRADE_REJECT"}

RECURSIVE AcceptedOf(_)
AcceptedOf(log) ==
    IF log = <<>> THEN <<>>
    ELSE LET e == Head(log)
         IN (IF IsExpired(e.m, e.at) THEN <<>> ELSE <<e.m>>)
                \o AcceptedOf(Tail(log))

\* C34: the bus history never holds more than _max_history messages and is
\* the most recent of the non-expired messages passed to send(), in send
\* order, delivered or not; messages_sent counts exactly those; and a send()
\* of a message expired at the call leaves history, messages_sent and
\* messages_delivered as they were.
BusHistoryBounded ==
    /\ Len(busHistory) <= BusMaxHistory
    /\ busHistory = LastN(AcceptedOf(sendLog), BusMaxHistory)
    /\ messagesSent = Len(AcceptedOf(sendLog))
    /\ \A m \in SendChoices :
          IsExpired(m, now)
              => LET r == Send(W, m).w
                 IN /\ r.busHistory = busHistory
                    /\ r.messagesSent = messagesSent
                    /\ r.messagesDelivered = messagesDelivered

\* C34 witness: of four send() calls one was refused as expired and three
\* were recorded, one of them undelivered; the history has dropped the
\* oldest of the three.
BusHistoryWitness ==
    /\ Len(sendLog) = 4
    /\ Len(AcceptedOf(sendLog)) = 3
    /\ AcceptedOf(sendLog)[1] \notin Range(busHistory)
    /\ messagesDelivered = 2
    /\ Len(busHistory) = BusMaxHistory


\* The messages a caller may hand to publish() or send_to_nearby() in the
\* current state.
ReachChoices ==
    {Message(nextMsgId, s, NoReceiver, "GREET", e, NoContent) :
        s \in BusSenders, e \in {NoExpiry, 0}}

\* World w1 is the current one with message m put at the end of the
\* mailboxes of exactly the agents in to, and messages_delivered raised by
\* n; nothing else differs.
EnqueuedExactly(w1, m, to, n) ==
    w1 = [W EXCEPT !.inboxes = [b \in DOMAIN inboxes |->
                                   IF b \in to THEN Append(inboxes[b], m)
                                   ELSE inboxes[b]],
                   !.messagesDelivered = @ + n]

\* publish(t, m), applied in the current state, reaches the registered
\* subscribers of t other than the sender and returns their number.
PublishCounts ==
    \A t \in Topics, m \in ReachChoices :
        LET r == Publish(W, t, m)
            to == {a \in agents : /\ a # m.sender
                                  /\ t \in DOMAIN subscriptions
                                  /\ a \in subscriptions[t]}
        IN /\ r.ret = Cardinality(to)
           /\ EnqueuedExactly(r.w, m, to, r.ret)
           /\ t \notin DOMAIN subscriptions => r.ret = 0

\* send_to_nearby(m, l, locs), applied in the current state, reaches the
\* registered agents that locs places at l, other than the sender, and
\* returns their number.
NearbyCounts ==
    \A l \in Locations \cup {"dock"}, locs \in LocationMaps,
       m \in ReachChoices :
        LET r == SendToNearby(W, m, l, locs)
            to == {a \in agents : /\ a # m.sender
                                  /\ a \in DOMAIN locs
                                  /\ locs[a] = l}
        IN /\ r.ret = Cardinality(to)
           /\ EnqueuedExactly(r.w, m, to, r.ret)
           /\ (\A a \in DOMAIN locs : locs[a] # l) => r.ret = 0

\* C35: publish and send_to_nearby return the number of mailboxes they put
\* the message in and raise messages_delivered by it; publish reaches exactly
\* the agents subscribed to the topic, registered and not the sender,
\* send_to_nearby exactly the agents mapped to the location, registered and
\* not the sender; an unknown topic or an empty location gives 0.
ReachCounts == PublishCounts /\ NearbyCounts

\* C35 witness: a message of a1 was put in the mailbox of a2 and in no other,
\* while a3 is registered with an empty mailbox and both a1 and a2 are
\* subscribed to a topic: the call reached one agent and counted one.
ReachCountsWitness ==
    /\ agents = Agents
    /\ \E t \in DOMAIN subscriptions : subscriptions[t] = {"a1", "a2"}
    /\ Len(inboxes["a2"]) = 1
    /\ inboxes["a2"][1].sender = "a1"
    /\ inboxes["a1"] = <<>>
    /\ inboxes["a3"] = <<>>
    /\ messagesDelivered = 1
    /\ messagesSent = 0


\* C36: no call of send, publish or send_to_nearby puts in a mailbox a
\* message that is already expired at the time of the call.
NoExpiredEnqueued ==
    [][\A b \in DOMAIN inboxes \cap DOMAIN inboxes' :
          Len(inboxes'[b]) > Len(inboxes[b])
              => ~IsExpired(inboxes'[b][Len(inboxes'[b])], now)]_vars


\* C37: whatever ids the interactions are given, every interaction started
\* and not yet completed is in the active set: active_count is
\* total_interactions less the number of complete_interaction calls that
\* returned an interaction (under SpecMgr the history holds every one of
\* them), and successful_interactions never exceeds total_interactions.
InteractionAccounting ==
    /\ Cardinality(DOMAIN active) = totalInteractions - Len(mgrHistory)
    /\ successfulInteractions <= totalInteractions



\* C38: under any interleaving of start() and stop() calls on one runner,
\* whenever the runner is running with a live loop task, its agent id is
\* registered with the bus and the bus holds a mailbox for that id (the one
\* the runner drains).
RunningIsRegistered ==
    \A c \in Citizens :
        (runner[c].running /\ runner[c].task \in Suspended)
            => /\ c \in agents
               /\ c \in DOMAIN inboxes



\* The GREETs from s that are waiting in the mailbox q and are replies
\* (isReply) or first greetings (not isReply).
GreetsFrom(q, s, isReply) ==
    {i \in DOMAIN q :
        /\ q[i].kind = "GREET"
        /\ q[i].sender = s
        /\ ("response" \in DOMAIN q[i].content) = isReply}

\* The reply GREETs c sends to d in the step: they are in d's mailbox after
\* it under ids not yet given out before it.
NewRepliesTo(c, d) ==
    IF d \in DOMAIN inboxes'
    THEN {i \in GreetsFrom(inboxes'[d], c, TRUE) :
              inboxes'[d][i].id >= nextMsgId}
    ELSE {}

\* C39: greeting exchanges quiesce, for all trait values: a GREET sent as a
\* reply is not itself answered with a GREET, so in every step a runner
\* sends an agent at most as many reply GREETs as first greetings of that
\* agent were waiting in its mailbox, and a first greeting leads to finitely
\* many GREETs.
GreetingsQuiesce ==
    [][\A c, d \in Citizens :
          Cardinality(NewRepliesTo(c, d))
              <= (IF c \in DOMAIN inboxes
                  THEN Cardinality(GreetsFrom(inboxes[c], d, FALSE))
                  ELSE 0)]_vars

=============================================================================
